---- MODULE Spec2Model ----
(***************************************************************************)
(* A model of the schema-versioning module (schema_manager.py), the        *)
(* knowledge-graph build driver (build_kg_from_pdf.py), the schema CLI     *)
(* (manage_schema.py), the chunk extractor (extract_from_chunks.py) and    *)
(* the connection life cycle of the scripts.                               *)
(*                                                                         *)
(* The module holds several specifications over disjoint groups of         *)
(* variables; each specification leaves the other groups at their initial  *)
(* values:                                                                 *)
(*   SpecCompare  compare_schemas as a pure function of two schemas        *)
(*   Spec         the SchemaMetadata store, schema tracking and the build  *)
(*   SpecScripts  driver open/close and exception flow of the scripts      *)
(*   SpecExtract  the batched LLM fan-out of extract_from_chunks           *)
(*                                                                         *)
(* Data representation.  A Python str is a TLA+ string.  A node type or a  *)
(* relationship type is either a str or a dict, written as a record with   *)
(* a kind field; absent fields hold "".  A pattern is a 3-sequence that is *)
(* either a Python tuple (hashable) or a Python list (what json.loads      *)
(* gives back, unhashable).  A version string is held as the sequence of   *)
(* its "."-separated parts, each part a string.                            *)
(***************************************************************************)
EXTENDS Integers, Sequences, FiniteSets, TLC

VARIABLES
    \* ---- SpecCompare
    old_schema,      \* first argument of compare_schemas
    new_schema,      \* second argument of compare_schemas
    cmp_result,      \* what the call produced: a change list or a raised TypeError
    cmp_pc,          \* "idle" | "call" | "done"
    \* ---- Spec: the SchemaMetadata store, tracking and the build
    meta,            \* the SchemaMetadata nodes of the graph, one per version
    clock,           \* the database's datetime(), as a logical clock
    ops,             \* number of commands started so far (bounded)
    last_store,      \* the most recent store_schema_version call that returned True
    last_get,        \* the most recent get_current_schema_version call
    last_track,      \* the most recent track_schema_automatically call
    b_pc,            \* position of build_knowledge_graph_from_pdf
    b_args,          \* its arguments: schema, auto_schema, track_schema, schema_version
    b_driver,        \* its driver: "none" | "open" | "closed"
    b_pipeline,      \* outcome of kg_builder.run_async: "none" | "completed" | "raised"
    b_wrote,         \* whether this build wrote a SchemaMetadata node
    \* ---- SpecScripts: one script run after another
    s_script,        \* the script (entry function) that is running, or "none"
    s_pc,            \* its position
    s_driver,        \* its driver: "none" | "open" | "closed"
    s_exc,           \* "none" | "raised" | "caught" | "propagated"
    s_polls,         \* iterations of wait_and_link's polling loop so far
    s_log,           \* how each finished run ended
    \* ---- SpecExtract: extract_from_chunks.main
    e_pc,            \* position of main
    e_driver,        \* its driver: "none" | "open" | "closed"
    e_exc,           \* "none" | "raised" | "propagated"
    e_cause,         \* what raised: "none" | "connect" | "query" | "write" | "llm"
    e_n,             \* number of Chunk nodes in the graph; chunks[k-1] is chunk k
    e_i,             \* the loop variable i of the batch loop
    e_r,             \* the chunk whose result the write loop is at
    e_state,         \* per chunk: "pending" | "inflight" | "data" | "None" |
                     \*            "written" | "skipped"
    e_calls,         \* per chunk: number of LLM calls made for it
    e_failed,        \* the chunks whose LLM call raised
    \* ---- SpecEnrich: SubdivisionParcelEnricher.enrich_all_subdivisions
    n_csv,           \* the rows of the CSV file, in file order
    n_db,            \* the subdivision_id values of the Subdivision nodes
    n_pc,            \* position of enrich_all_subdivisions
    n_row,           \* number of CSV rows read so far
    n_data,          \* subdivision_data: the dict's values in insertion order
    n_exc,           \* "none" | "ValueError" | "query"
    n_exist,         \* existence_map: the ids reported as existing
    n_k,             \* number of items of subdivision_data the loop has passed
    n_batch,         \* batch
    n_sent,          \* the batches handed to enrich_subdivision_batch so far
    n_updated,       \* total_updated
    n_enriched,      \* the Subdivision nodes with enriched_from_csv = true
    \* ---- SpecLinks: create_subdivision_links_batch
    l_parcels,       \* parcel_id of each Parcel node (LNull: no parcel_id)
    l_subdivs,       \* the subdivision_id values of the Subdivision nodes
    l_links,         \* the BELONGS_TO relationships, as <<parcel, subdivision_id>>
    l_before,        \* the BELONGS_TO relationships before the run
    l_pc,            \* position of create_subdivision_links_batch
    l_exc,           \* "none" | "raised" | "caught"
    l_created,       \* created, the count the last batch query returned (-1: no batch yet)
    l_total,         \* total_created
    \* ---- SpecExport: SchemaManager.export_schema
    x_version,       \* the version argument of the last export_schema call (None: not given)
    x_ret,           \* "none" | "True" | "False": what export_schema returned
    x_file,          \* the schema_dict written to file_path
    x_graph,         \* the SchemaMetadata nodes at the time of the call
    \* ---- SpecMigrate: SchemaMigrator.migrate_schema_changes
    m_old,           \* old_schema given to compare_schemas
    m_new,           \* new_schema given to compare_schemas
    m_compared,      \* TRUE when changes is what compare_schemas(m_old, m_new) returned
    m_changes,       \* changes
    m_dry_run,       \* dry_run
    m_nodes,         \* the label sets of the nodes of the graph
    m_before,        \* the label sets of the nodes before the call
    m_i,             \* number of changes the loop has passed
    m_pc,            \* "idle" | "loop" | "raised" | "returned"
    m_stats,         \* stats
    m_queries,       \* the write queries run, as <<old_label, new_label>>
    \* ---- SpecNormalize: HOAIDNormalizer.normalize_all_hoas
    h_hoas,          \* the HOA nodes: name, hoa_id, old_hoa_id, situs_city of their subdivisions
    h_pc,            \* position of normalize_all_hoas
    h_rows,          \* hoas, the rows of the first query
    h_i,             \* number of rows or updates the current loop has passed
    h_sequences,     \* city_sequences, as a set of <<city, number>>
    h_updates,       \* updates
    \* ---- SpecWait: wait_and_link with its clock
    w_pc,            \* position of wait_and_link
    w_elapsed,       \* time.time() - start_time, in seconds
    w_node,          \* a Jurisdiction node named Weston exists, created by a build other than extract_from_chunks
    w_built,         \* built
    w_checked,       \* w_elapsed when the loop condition last held (-1: never)
    w_polled,        \* w_elapsed when the last poll returned no row (-1: never)
    w_link_run,      \* the link query was run
    w_timed_out,     \* the timeout was reported
    w_exc            \* "none" | "raised" | "caught"

cmpVars == <<old_schema, new_schema, cmp_result, cmp_pc>>
dbVars == <<meta, clock, ops, last_store, last_get, last_track>>
buildVars == <<b_pc, b_args, b_driver, b_pipeline, b_wrote>>
scriptVars == <<s_script, s_pc, s_driver, s_exc, s_polls, s_log>>
extractVars == <<e_pc, e_driver, e_exc, e_cause, e_n, e_i, e_r, e_state, e_calls, e_failed>>
enrichVars == <<n_csv, n_db, n_pc, n_row, n_data, n_exc, n_exist, n_k, n_batch, n_sent,
                n_updated, n_enriched>>
linkVars == <<l_parcels, l_subdivs, l_links, l_before, l_pc, l_exc, l_created, l_total>>
exportVars == <<x_version, x_ret, x_file, x_graph>>
migrateVars == <<m_old, m_new, m_compared, m_changes, m_dry_run, m_nodes, m_before, m_i, m_pc, m_stats, m_queries>>
normalizeVars == <<h_hoas, h_pc, h_rows, h_i, h_sequences, h_updates>>
waitVars == <<w_pc, w_elapsed, w_node, w_built, w_checked, w_polled, w_link_run, w_timed_out, w_exc>>
oldVars == <<cmpVars, dbVars, buildVars, scriptVars, extractVars>>
newVars == <<enrichVars, linkVars, exportVars, migrateVars, normalizeVars, waitVars>>
exceptEnrich == <<oldVars, linkVars, exportVars, migrateVars, normalizeVars, waitVars>>
exceptLink == <<oldVars, enrichVars, exportVars, migrateVars, normalizeVars, waitVars>>
exceptExport == <<oldVars, enrichVars, linkVars, migrateVars, normalizeVars, waitVars>>
exceptMigrate == <<oldVars, enrichVars, linkVars, exportVars, normalizeVars, waitVars>>
exceptNormalize == <<oldVars, enrichVars, linkVars, exportVars, migrateVars, waitVars>>
exceptWait == <<oldVars, enrichVars, linkVars, exportVars, migrateVars, normalizeVars>>
vars == <<oldVars, newVars>>

(***************************************************************************)
(* Bounds of the model.                                                    *)
(***************************************************************************)
MaxNodeTypes == 2
MaxRelTypes == 2
MaxPatterns == 1
MaxOps == 3

(***************************************************************************)
(* Values.                                                                 *)
(***************************************************************************)
StrNode(s) == [kind |-> "str", text |-> s, label |-> "", description |-> ""]
DictNode(l, d) == [kind |-> "dict", text |-> "", label |-> l, description |-> d]
StrRel(s) == [kind |-> "str", text |-> s, label |-> ""]
DictRel(l) == [kind |-> "dict", text |-> "", label |-> l]
TuplePattern(s, r, t) == [tuple |-> TRUE, items |-> <<s, r, t>>]
ListPattern(s, r, t) == [tuple |-> FALSE, items |-> <<s, r, t>>]

NodeTypeVals ==
    { StrNode("Section"),
      DictNode("Section", "A codified section"),
      DictNode("Section", "A section of the code"),
      DictNode("Zone", "Zoning districts") }

RelTypeVals == { StrRel("APPLIES_TO"), StrRel("PART_OF"), DictRel("APPLIES_TO") }

PatternVals == { TuplePattern("Section", "APPLIES_TO", "Zone") }

SeqsUpTo(S, n) == UNION { [1..k -> S] : k \in 0..n }

MakeSchema(nts, rts, pts) ==
    [node_types |-> nts, relationship_types |-> rts, patterns |-> pts]

EmptySchema == MakeSchema(<<>>, <<>>, <<>>)

CompareSchemaInputs ==
    { MakeSchema(nts, rts, pts) :
        nts \in SeqsUpTo(NodeTypeVals, MaxNodeTypes),
        rts \in SeqsUpTo(RelTypeVals, MaxRelTypes),
        pts \in SeqsUpTo(PatternVals, MaxPatterns) }

(***************************************************************************)
(* Helpers on sequences and sets.                                          *)
(***************************************************************************)
Range(s) == { s[i] : i \in 1..Len(s) }

RECURSIVE SetToSeq(_)
\* the elements of a finite set in some order: Python's set iteration order
SetToSeq(S) ==
    IF S = {} THEN <<>>
    ELSE LET x == CHOOSE y \in S : TRUE IN <<x>> \o SetToSeq(S \ {x})

\* [f(x) for x in s if x in keep], for a sequence s
SelectInOrder(s, keep, f(_)) ==
    LET Keep(x) == x \in keep
        kept == SelectSeq(s, Keep)
    IN [i \in 1..Len(kept) |-> f(kept[i])]

(***************************************************************************)
(* SchemaManager._get_label and SchemaManager.compare_schemas.             *)
(***************************************************************************)
get_label(node_type) ==
    IF node_type.kind = "str" THEN node_type.text
    ELSE IF node_type.kind = "dict" THEN node_type.label
    ELSE ""

RECURSIVE DictKeys(_)
\* the keys of {get_label(nt): nt for nt in nts}, in insertion order
DictKeys(nts) ==
    IF nts = <<>> THEN <<>>
    ELSE LET front == DictKeys(SubSeq(nts, 1, Len(nts) - 1))
             l == get_label(nts[Len(nts)])
         IN IF l \in Range(front) THEN front ELSE Append(front, l)

\* the value of {get_label(nt): nt for nt in nts}[l]: the last entry wins
DictGet(nts, l) ==
    LET idx == { i \in 1..Len(nts) : get_label(nts[i]) = l }
        last == CHOOSE i \in idx : \A j \in idx : j <= i
    IN nts[last]

\* set(lst) raises TypeError when an element is a dict or a list
RelHashable(rts) == \A i \in 1..Len(rts) : rts[i].kind = "str"
PatHashable(pts) == \A i \in 1..Len(pts) : pts[i].tuple

Change(ct, et, n) == [change_type |-> ct, entity_type |-> et, name |-> n]

RelName(rel) == IF rel.kind = "str" THEN rel.text ELSE rel.label
PatternName(p) == p.items[1] \o "-" \o p.items[2] \o "-" \o p.items[3]

NodeChanges(old_nts, new_nts) ==
    LET old_keys == DictKeys(old_nts)
        new_keys == DictKeys(new_nts)
        AddedOrModified(l) ==
            IF l \notin Range(old_keys) THEN Change("added", "node_type", l)
            ELSE Change("modified", "node_type", l)
        Removed(l) == Change("removed", "node_type", l)
        reported ==
            { l \in Range(new_keys) :
                \/ l \notin Range(old_keys)
                \/ DictGet(old_nts, l) # DictGet(new_nts, l) }
    IN SelectInOrder(new_keys, reported, AddedOrModified)
       \o SelectInOrder(old_keys, Range(old_keys) \ Range(new_keys), Removed)

RelChanges(old_rts, new_rts) ==
    LET old_rels == Range(old_rts)
        new_rels == Range(new_rts)
        Added(rel) == Change("added", "relationship_type", RelName(rel))
        Removed(rel) == Change("removed", "relationship_type", RelName(rel))
    IN SelectInOrder(SetToSeq(new_rels), new_rels \ old_rels, Added)
       \o SelectInOrder(SetToSeq(old_rels), old_rels \ new_rels, Removed)

PatternChanges(old_pts, new_pts) ==
    LET old_patterns == Range(old_pts)
        new_patterns == Range(new_pts)
        Added(p) == Change("added", "pattern", PatternName(p))
        Removed(p) == Change("removed", "pattern", PatternName(p))
    IN SelectInOrder(SetToSeq(new_patterns), new_patterns \ old_patterns, Added)
       \o SelectInOrder(SetToSeq(old_patterns), old_patterns \ new_patterns, Removed)

Raised == [raised |-> TRUE, changes |-> <<>>]
Returned(chs) == [raised |-> FALSE, changes |-> chs]

compare_schemas(old, new) ==
    IF ~(RelHashable(old.relationship_types) /\ RelHashable(new.relationship_types))
    THEN Raised
    ELSE IF ~(PatHashable(old.patterns) /\ PatHashable(new.patterns))
    THEN Raised
    ELSE Returned(NodeChanges(old.node_types, new.node_types)
                  \o RelChanges(old.relationship_types, new.relationship_types)
                  \o PatternChanges(old.patterns, new.patterns))

(***************************************************************************)
(* Version strings.  A version is the sequence of its "."-separated parts  *)
(* (version.split(".")); None is the empty sequence, "" is <<"">>.         *)
(***************************************************************************)
None == <<>>
V(a, b, c) == <<a, b, c>>
Numerals == <<"0", "1", "2", "3", "4", "5", "6", "7", "8", "9">>

\* int(s) succeeds
IsInt(s) == \E i \in 1..Len(Numerals) : Numerals[i] = s
\* int(s)
IntOf(s) == (CHOOSE i \in 1..Len(Numerals) : Numerals[i] = s) - 1
\* str(n), f"{n}"
StrOf(n) == Numerals[n + 1]

\* Python truthiness of an Optional[str]
Truthy(version) == version # None /\ version # <<"">>

increment_version(version) ==
    IF Len(version) = 3
    THEN IF IsInt(version[3])
         THEN V(version[1], version[2], StrOf(IntOf(version[3]) + 1))
         ELSE V("1", "0", "1")
    ELSE V("1", "0", "1")

(***************************************************************************)
(* JSON and the SchemaVersion model.                                       *)
(***************************************************************************)
\* json.loads(json.dumps(patterns)): a tuple is written as an array and
\* read back as a list; strings and dicts come back as they were
JsonPatterns(pts) == [i \in 1..Len(pts) |-> [tuple |-> FALSE, items |-> pts[i].items]]

\* SchemaVersion(...) validation: node_types and relationship_types are
\* list[dict[str, Any]], patterns are list[tuple[str, str, str]] (a list of
\* three strings is coerced to a tuple).  created_at is declared str; what
\* the driver hands back for a Cypher datetime() is the driver's choice, and
\* the model takes it to validate
ValidSchemaVersion(node) ==
    /\ \A i \in 1..Len(node.node_types) : node.node_types[i].kind = "dict"
    /\ \A i \in 1..Len(node.relationship_types) : node.relationship_types[i].kind = "dict"
    /\ \A i \in 1..Len(node.patterns) : Len(node.patterns[i].items) = 3

CoercePatterns(pts) == [i \in 1..Len(pts) |-> [tuple |-> TRUE, items |-> pts[i].items]]

NoVersion == [found |-> FALSE, version |-> None, schema |-> EmptySchema]
SchemaVersion(node) ==
    [found |-> TRUE,
     version |-> node.version,
     schema |-> MakeSchema(node.node_types, node.relationship_types,
                           CoercePatterns(node.patterns))]

(***************************************************************************)
(* SchemaManager.store_schema_version and get_current_schema_version.      *)
(***************************************************************************)
\* MERGE (s:SchemaMetadata {version: $version}) SET ... created_at = datetime()
MergeSchemaMetadata(graph, schema, version, now) ==
    { n \in graph : n.version # version }
    \cup { [version |-> version,
            node_types |-> schema.node_types,
            relationship_types |-> schema.relationship_types,
            patterns |-> JsonPatterns(schema.patterns),
            created_at |-> now] }

\* MATCH (s:SchemaMetadata) RETURN s ORDER BY s.created_at DESC LIMIT 1
LatestNode(graph) == CHOOSE n \in graph : \A m \in graph : m.created_at <= n.created_at

get_current_schema_version(graph, query_fails) ==
    IF query_fails THEN NoVersion
    ELSE IF graph = {} THEN NoVersion
    ELSE IF ~ValidSchemaVersion(LatestNode(graph)) THEN NoVersion
    ELSE SchemaVersion(LatestNode(graph))

(***************************************************************************)
(* build_kg_from_pdf.track_schema_automatically, as the decision it takes: *)
(* whether store_schema_version is called, and with which version.         *)
(***************************************************************************)
NoStore == [store |-> FALSE, version |-> None]
StoreAs(version) == [store |-> TRUE, version |-> version]

TrackDecision(stored_version, schema, version, auto_increment) ==
    IF stored_version.found
    THEN LET changes == compare_schemas(stored_version.schema, schema)
         IN IF changes.raised THEN NoStore
            ELSE IF changes.changes = <<>> THEN NoStore
            ELSE IF Truthy(version) THEN StoreAs(version)
            ELSE IF auto_increment THEN StoreAs(increment_version(stored_version.version))
            ELSE NoStore
    ELSE IF ~Truthy(version) THEN StoreAs(V("1", "0", "0"))
    ELSE StoreAs(version)

(***************************************************************************)
(* Inputs.                                                                 *)
(***************************************************************************)
SectionA == DictNode("Section", "A codified section")
SectionB == DictNode("Section", "A section of the code")
ZoneA == DictNode("Zone", "Zoning districts")
AppliesTo == TuplePattern("Section", "APPLIES_TO", "Zone")

\* the schema of the build script (DEFAULT_NODE_TYPES, DEFAULT_RELATIONSHIP_TYPES,
\* DEFAULT_PATTERNS) as it ships and as a developer may edit it
BuildSchemas ==
    { MakeSchema(<<SectionA, ZoneA>>, <<StrRel("APPLIES_TO")>>, <<AppliesTo>>),
      MakeSchema(<<SectionA>>, <<>>, <<AppliesTo>>),
      MakeSchema(<<SectionB>>, <<>>, <<AppliesTo>>),
      MakeSchema(<<SectionA>>, <<DictRel("APPLIES_TO")>>, <<>>) }

\* --version of manage_schema.py store
StoreVersions == { V("1", "0", "0"), <<"2", "0">> }
\* --schema-version of the build script: absent, empty, or a version
BuildVersions == { None, <<"">>, <<"2", "0">> }

(***************************************************************************)
(* Actions of Spec.                                                        *)
(***************************************************************************)
NoStoreYet == [some |-> FALSE, version |-> None, schema |-> EmptySchema]
NoGetYet == [called |-> FALSE, query_failed |-> FALSE, result |-> NoVersion]
NoTrackYet ==
    [called |-> FALSE, stored_before |-> FALSE, same_as_last |-> FALSE,
     prev_version |-> None, get_failed |-> FALSE, given |-> None,
     auto_increment |-> FALSE, store_called |-> FALSE, store_version |-> None,
     store_ok |-> FALSE]
NoArgs == [schema |-> EmptySchema, auto_schema |-> FALSE, track_schema |-> FALSE,
           schema_version |-> None]

CmpIdle ==
    /\ old_schema = EmptySchema
    /\ new_schema = EmptySchema
    /\ cmp_result = Returned(<<>>)
    /\ cmp_pc = "idle"

DbIdle ==
    /\ meta = {}
    /\ clock = 0
    /\ ops = 0
    /\ last_store = NoStoreYet
    /\ last_get = NoGetYet
    /\ last_track = NoTrackYet

BuildIdle ==
    /\ b_pc = "idle"
    /\ b_args = NoArgs
    /\ b_driver = "none"
    /\ b_pipeline = "none"
    /\ b_wrote = FALSE

ScriptIdle ==
    /\ s_script = "none"
    /\ s_pc = "idle"
    /\ s_driver = "none"
    /\ s_exc = "none"
    /\ s_polls = 0
    /\ s_log = <<>>

EnrichIdle ==
    /\ n_csv = <<>>
    /\ n_db = {}
    /\ n_pc = "idle"
    /\ n_row = 0
    /\ n_data = <<>>
    /\ n_exc = "none"
    /\ n_exist = {}
    /\ n_k = 0
    /\ n_batch = <<>>
    /\ n_sent = <<>>
    /\ n_updated = 0
    /\ n_enriched = {}

LinksIdle ==
    /\ l_parcels = <<>>
    /\ l_subdivs = {}
    /\ l_links = {}
    /\ l_before = {}
    /\ l_pc = "idle"
    /\ l_exc = "none"
    /\ l_created = -1
    /\ l_total = 0

ExportIdle ==
    /\ x_version = None
    /\ x_ret = "none"
    /\ x_file = NoVersion
    /\ x_graph = {}

MigrateIdle ==
    /\ m_old = EmptySchema
    /\ m_new = EmptySchema
    /\ m_compared = FALSE
    /\ m_changes = <<>>
    /\ m_dry_run = FALSE
    /\ m_nodes = <<>>
    /\ m_before = <<>>
    /\ m_i = 0
    /\ m_pc = "idle"
    /\ m_stats = [nodes_updated |-> 0, relationships_updated |-> 0, warnings |-> 0]
    /\ m_queries = <<>>

NormalizeIdle ==
    /\ h_hoas = <<>>
    /\ h_pc = "idle"
    /\ h_rows = <<>>
    /\ h_i = 0
    /\ h_sequences = {}
    /\ h_updates = <<>>

WaitIdle ==
    /\ w_pc = "idle"
    /\ w_elapsed = 0
    /\ w_node = FALSE
    /\ w_built = FALSE
    /\ w_checked = -1
    /\ w_polled = -1
    /\ w_link_run = FALSE
    /\ w_timed_out = FALSE
    /\ w_exc = "none"

NewIdle == EnrichIdle /\ LinksIdle /\ ExportIdle /\ MigrateIdle /\ NormalizeIdle /\ WaitIdle

ExtractIdle ==
    /\ e_pc = "idle"
    /\ e_driver = "none"
    /\ e_exc = "none"
    /\ e_cause = "none"
    /\ e_n = 0
    /\ e_i = 0
    /\ e_r = 0
    /\ e_state = <<>>
    /\ e_calls = <<>>
    /\ e_failed = {}

Init ==
    /\ meta = {}
    /\ clock = 0
    /\ ops = 0
    /\ last_store = NoStoreYet
    /\ last_get = NoGetYet
    /\ last_track = NoTrackYet
    /\ BuildIdle
    /\ CmpIdle
    /\ ScriptIdle
    /\ ExtractIdle
    /\ NewIdle

\* manage_schema.py store --version v: store_schema_version(DEFAULT schema, v)
CmdStore(schema, version, query_fails) ==
    /\ ops < MaxOps
    /\ ops' = ops + 1
    /\ IF query_fails
       THEN UNCHANGED <<meta, clock, last_store, last_get>>
       ELSE /\ meta' = MergeSchemaMetadata(meta, schema, version, clock + 1)
            /\ clock' = clock + 1
            /\ last_store' = [some |-> TRUE, version |-> version, schema |-> schema]
            /\ last_get' = NoGetYet
    /\ UNCHANGED <<last_track, buildVars, cmpVars, scriptVars, extractVars, newVars>>

\* manage_schema.py status / compare: get_current_schema_version()
CmdStatus(query_fails) ==
    /\ last_get' = [called |-> TRUE, query_failed |-> query_fails,
                    result |-> get_current_schema_version(meta, query_fails)]
    /\ UNCHANGED <<meta, clock, ops, last_store, last_track,
                   buildVars, cmpVars, scriptVars, extractVars, newVars>>

\* build_knowledge_graph_from_pdf: driver created, verify_connectivity,
\* LLM, embedder and pipeline constructed
BuildStart(schema, auto_schema, track_schema, schema_version, connected) ==
    /\ b_pc \in {"idle", "exited"}
    /\ ops < MaxOps
    /\ ops' = ops + 1
    /\ b_args' = [schema |-> schema, auto_schema |-> auto_schema,
                  track_schema |-> track_schema, schema_version |-> schema_version]
    /\ b_driver' = "open"
    /\ b_pipeline' = "none"
    /\ b_wrote' = FALSE
    /\ b_pc' = IF connected THEN "running" ELSE "finally"
    /\ UNCHANGED <<meta, clock, last_store, last_get, last_track, cmpVars, scriptVars, extractVars, newVars>>

\* result = await kg_builder.run_async(...) returns
PipelineCompletes ==
    /\ b_pc = "running"
    /\ b_pipeline' = "completed"
    /\ b_pc' = "ran"
    /\ UNCHANGED <<b_args, b_driver, b_wrote, dbVars, cmpVars, scriptVars, extractVars, newVars>>

\* kg_builder.run_async(...) raises: control passes to the finally block
PipelineRaises ==
    /\ b_pc = "running"
    /\ b_pipeline' = "raised"
    /\ b_pc' = "finally"
    /\ UNCHANGED <<b_args, b_driver, b_wrote, dbVars, cmpVars, scriptVars, extractVars, newVars>>

\* the condition without its auto_schema half
TrackingWithAutoSchema == b_args.track_schema

\* if track_schema and not auto_schema
TrackingEnabled == b_args.track_schema /\ ~b_args.auto_schema

\* await track_schema_automatically(driver, schema_to_track, schema_version,
\*                                  description, auto_increment=(schema_version is None))
BuildTrack(get_fails, store_fails) ==
    /\ b_pc = "ran"
    /\ TrackingEnabled
    /\ LET stored_version == get_current_schema_version(meta, get_fails)
           auto_increment == (b_args.schema_version = None)
           decision == TrackDecision(stored_version, b_args.schema,
                                     b_args.schema_version, auto_increment)
           stored == decision.store /\ ~store_fails
       IN /\ meta' = IF stored
                     THEN MergeSchemaMetadata(meta, b_args.schema, decision.version, clock + 1)
                     ELSE meta
          /\ clock' = IF stored THEN clock + 1 ELSE clock
          /\ last_store' = IF stored
                           THEN [some |-> TRUE, version |-> decision.version,
                                 schema |-> b_args.schema]
                           ELSE last_store
          /\ last_get' = IF stored THEN NoGetYet ELSE last_get
          /\ b_wrote' = stored
          /\ last_track' =
                [called |-> TRUE,
                 stored_before |-> meta # {},
                 same_as_last |-> last_store.some /\ last_store.schema = b_args.schema,
                 prev_version |-> IF meta # {} THEN LatestNode(meta).version ELSE None,
                 get_failed |-> get_fails,
                 given |-> b_args.schema_version,
                 auto_increment |-> auto_increment,
                 store_called |-> decision.store,
                 store_version |-> decision.version,
                 store_ok |-> stored]
    /\ b_pc' = "finally"
    /\ UNCHANGED <<ops, b_args, b_driver, b_pipeline, cmpVars, scriptVars, extractVars, newVars>>

\* tracking not asked for, or skipped in auto-schema mode: return result
BuildSkipTrack ==
    /\ b_pc = "ran"
    /\ ~TrackingEnabled
    /\ b_pc' = "finally"
    /\ UNCHANGED <<b_args, b_driver, b_pipeline, b_wrote, dbVars, cmpVars, scriptVars, extractVars, newVars>>

\* finally: if llm: await llm.async_client.close(); if driver: driver.close().
\* llm is set once the connection was verified; when closing the LLM client
\* raises, driver.close() is not reached.  The function's locals (and the
\* records kept of its run) go with the call
BuildFinally(llm_close_raises) ==
    /\ b_pc = "finally"
    /\ b_driver' = IF b_pipeline # "none" /\ llm_close_raises THEN "open" ELSE "closed"
    /\ b_pc' = "exited"
    /\ b_args' = NoArgs
    /\ b_pipeline' = "none"
    /\ b_wrote' = FALSE
    /\ last_track' = NoTrackYet
    /\ UNCHANGED <<meta, clock, ops, last_store, last_get, cmpVars, scriptVars, extractVars, newVars>>

Next ==
    \/ \E schema \in BuildSchemas, version \in StoreVersions, query_fails \in BOOLEAN :
          CmdStore(schema, version, query_fails)
    \/ \E query_fails \in BOOLEAN : CmdStatus(query_fails)
    \/ \E schema \in BuildSchemas, auto_schema \in BOOLEAN, track_schema \in BOOLEAN,
          schema_version \in BuildVersions, connected \in BOOLEAN :
          BuildStart(schema, auto_schema, track_schema, schema_version, connected)
    \/ PipelineCompletes
    \/ PipelineRaises
    \/ \E get_fails \in BOOLEAN, store_fails \in BOOLEAN : BuildTrack(get_fails, store_fails)
    \/ BuildSkipTrack
    \/ \E llm_close_raises \in BOOLEAN : BuildFinally(llm_close_raises)

Spec == Init /\ [][Next]_vars

(***************************************************************************)
(* SpecCompare: compare_schemas applied to every pair of bounded schemas.  *)
(***************************************************************************)
InitCompare ==
    /\ old_schema \in CompareSchemaInputs
    /\ new_schema \in CompareSchemaInputs
    /\ cmp_result = Returned(<<>>)
    /\ cmp_pc = "call"
    /\ DbIdle
    /\ BuildIdle
    /\ ScriptIdle
    /\ ExtractIdle
    /\ NewIdle

CallCompare ==
    /\ cmp_pc = "call"
    /\ cmp_result' = compare_schemas(old_schema, new_schema)
    /\ cmp_pc' = "done"
    /\ UNCHANGED <<old_schema, new_schema, dbVars, buildVars, scriptVars, extractVars, newVars>>

NextCompare == CallCompare

SpecCompare == InitCompare /\ [][NextCompare]_vars

(***************************************************************************)
(* What the statements about compare_schemas say, in terms of the two      *)
(* schemas alone.                                                          *)
(***************************************************************************)
LabelsOf(schema) == { get_label(nt) : nt \in Range(schema.node_types) }
DefsOf(schema, l) == { nt \in Range(schema.node_types) : get_label(nt) = l }

\* every label is defined once in the schema's node type list
UniqueLabels(schema) == \A l \in LabelsOf(schema) : Cardinality(DefsOf(schema, l)) = 1

AddedLabels == LabelsOf(new_schema) \ LabelsOf(old_schema)
RemovedLabels == LabelsOf(old_schema) \ LabelsOf(new_schema)
ModifiedLabels ==
    { l \in LabelsOf(old_schema) \cap LabelsOf(new_schema) :
        DefsOf(old_schema, l) # DefsOf(new_schema, l) }
AddedRels == Range(new_schema.relationship_types) \ Range(old_schema.relationship_types)
RemovedRels == Range(old_schema.relationship_types) \ Range(new_schema.relationship_types)
AddedPatterns == Range(new_schema.patterns) \ Range(old_schema.patterns)
RemovedPatterns == Range(old_schema.patterns) \ Range(new_schema.patterns)

SetDifferenceChanges ==
    { Change("added", "node_type", l) : l \in AddedLabels }
    \cup { Change("removed", "node_type", l) : l \in RemovedLabels }
    \cup { Change("modified", "node_type", l) : l \in ModifiedLabels }
    \cup { Change("added", "relationship_type", RelName(r)) : r \in AddedRels }
    \cup { Change("removed", "relationship_type", RelName(r)) : r \in RemovedRels }
    \cup { Change("added", "pattern", PatternName(p)) : p \in AddedPatterns }
    \cup { Change("removed", "pattern", PatternName(p)) : p \in RemovedPatterns }

SetDifferenceCount ==
    Cardinality(AddedLabels) + Cardinality(RemovedLabels) + Cardinality(ModifiedLabels)
    + Cardinality(AddedRels) + Cardinality(RemovedRels)
    + Cardinality(AddedPatterns) + Cardinality(RemovedPatterns)

SameSchemas ==
    /\ Range(old_schema.node_types) = Range(new_schema.node_types)
    /\ Range(old_schema.relationship_types) = Range(new_schema.relationship_types)
    /\ Range(old_schema.patterns) = Range(new_schema.patterns)

\* C1: compare_schemas(old, new) returns a change list that holds exactly the
\* set differences of the two schemas: one added / removed change per label,
\* relationship type and pattern on one side only, one modified change per
\* label defined differently on both sides, and no other change.  (Stated
\* for the schemas whose node type lists define each label once; for every
\* schema the call returns a list.)
C1_CompareReturnsSetDifferences ==
    cmp_pc = "done" =>
        /\ ~cmp_result.raised
        /\ (UniqueLabels(old_schema) /\ UniqueLabels(new_schema)) =>
              /\ Range(cmp_result.changes) = SetDifferenceChanges
              /\ Len(cmp_result.changes) = SetDifferenceCount

\* C2: compare_schemas(old, new) returns the empty list if and only if the
\* two schemas hold the same node types, relationship types and patterns,
\* list order ignored; compare_schemas(s, s) is empty for every s.  (The
\* "only if" is stated for node type lists that define each label once.)
C2_CompareEmptyIffIdentical ==
    cmp_pc = "done" =>
        /\ ~cmp_result.raised
        /\ SameSchemas => cmp_result.changes = <<>>
        /\ (UniqueLabels(old_schema) /\ UniqueLabels(new_schema)
            /\ cmp_result.changes = <<>>) => SameSchemas

\* the same two statements for the calls that return (relationship types
\* given as strings): what remains true of the code
CompareSetDifferencesWhenReturned ==
    (cmp_pc = "done" /\ ~cmp_result.raised
     /\ UniqueLabels(old_schema) /\ UniqueLabels(new_schema)) =>
        /\ Range(cmp_result.changes) = SetDifferenceChanges
        /\ Len(cmp_result.changes) = SetDifferenceCount
        /\ (cmp_result.changes = <<>>) <=> SameSchemas

(***************************************************************************)
(* Statements about the SchemaMetadata store, tracking and the build.      *)
(***************************************************************************)
StoredAs(version, schema) == [found |-> TRUE, version |-> version, schema |-> schema]

\* C3: after store_schema_version calls that returned True,
\* get_current_schema_version returns the version, node types, relationship
\* types and patterns passed to the most recent of them, for every schema of
\* the build script (str or dict node types, str or dict relationship
\* types); it returns None only when nothing was ever stored.  (Stated for
\* the calls whose query does not fail.)
C3_GetReturnsLastStored ==
    (last_get.called /\ ~last_get.query_failed) =>
        /\ last_store.some =>
              last_get.result = StoredAs(last_store.version, last_store.schema)
        /\ ~last_get.result.found => ~last_store.some

\* what remains true of the code: a SchemaVersion that is returned is the
\* most recently stored one
GetReturnsLastStoredWhenFound ==
    (last_get.called /\ last_get.result.found) =>
        /\ last_store.some
        /\ last_get.result = StoredAs(last_store.version, last_store.schema)

\* C4: track_schema_automatically called with the schema that was last
\* stored performs no store: no SchemaMetadata node is created or modified.
\* (Stated for the calls whose read query does not fail.)
C4_TrackStoresOnlyWhenChanged ==
    (last_track.called /\ last_track.same_as_last /\ ~last_track.get_failed) =>
        /\ ~last_track.store_called
        /\ ~last_track.store_ok

\* the version C5 announces for an auto-increment: X.Y.Z with Z increased by
\* one, 1.0.1 when the stored version is not three parts with an integer patch
AnnouncedIncrement(stored) ==
    IF Len(stored) = 3 /\ stored[3] \in Range(Numerals)
    THEN <<stored[1], stored[2], StrOf(IntOf(stored[3]) + 1)>>
    ELSE <<"1", "0", "1">>

\* C5: the version track_schema_automatically stores: with no stored
\* version, the given version or 1.0.0; with a stored version and a changed
\* schema, the given version, else (auto_increment) the stored version with
\* its patch increased by one, else nothing.  (Stated for the calls whose
\* read query does not fail.)
C5_TrackVersionChoice ==
    (last_track.called /\ ~last_track.get_failed) =>
        /\ ~last_track.stored_before =>
              /\ last_track.store_called
              /\ last_track.store_version =
                    IF Truthy(last_track.given) THEN last_track.given ELSE <<"1", "0", "0">>
        /\ (last_track.stored_before /\ ~last_track.same_as_last) =>
              IF Truthy(last_track.given)
              THEN last_track.store_called /\ last_track.store_version = last_track.given
              ELSE IF last_track.auto_increment
              THEN /\ last_track.store_called
                   /\ last_track.store_version = AnnouncedIncrement(last_track.prev_version)
              ELSE ~last_track.store_called

\* a step of build_knowledge_graph_from_pdf that writes SchemaMetadata
BuildWritesMetadata == meta' # meta /\ b_pc' # b_pc

\* C6: the build writes a SchemaMetadata node only after the pipeline run
\* has completed without exception, and only with track_schema set and
\* auto_schema not set.
C6_TrackOnlyAfterPipeline ==
    [][BuildWritesMetadata =>
          /\ b_pc = "ran"
          /\ b_pipeline = "completed"
          /\ b_args.track_schema
          /\ ~b_args.auto_schema]_vars

\* a build whose pipeline completed has stored a schema version
C6_Witness ==
    /\ b_pc = "finally"
    /\ b_wrote
    /\ b_pipeline = "completed"
    /\ last_store.some /\ last_store.schema = b_args.schema

(***************************************************************************)
(* SpecScripts: the connection life cycle and the exception flow of the    *)
(* scripts, one run after another.  Four shapes occur in the repository:   *)
(*   verify_neo4j_connection   try: open, verify, close / except: return   *)
(*   wait_and_link             open / try / except Exception / finally     *)
(*   cmd_validate              open / try / finally (no except)            *)
(*   check_parcel_subdiv       module-level statements, no try at all      *)
(***************************************************************************)
MaxRuns == 2
MaxPolls == 2

Scripts == { "verify_neo4j_connection", "wait_and_link", "cmd_validate",
             "check_parcel_subdiv" }

\* the statement after driver = GraphDatabase.driver(...)
FirstStep(script) ==
    CASE script = "verify_neo4j_connection" -> "vnc_verify"
      [] script = "wait_and_link" -> "wal_verify"
      [] script = "cmd_validate" -> "val_labels"
      [] script = "check_parcel_subdiv" -> "cps_query"

\* driver = GraphDatabase.driver(NEO4J_URI, auth=(...)) at the top of a script
ScriptOpen(script) ==
    /\ s_script = "none"
    /\ Len(s_log) < MaxRuns
    /\ s_script' = script
    /\ s_driver' = "open"
    /\ s_pc' = FirstStep(script)
    /\ UNCHANGED <<s_exc, s_polls, s_log, cmpVars, dbVars, buildVars, extractVars, newVars>>

\* verify_neo4j_connection: driver.verify_connectivity(); driver.close();
\* return True, "" / except Exception: return (False, message)
VncVerify(ok) ==
    /\ s_pc = "vnc_verify"
    /\ s_driver' = IF ok THEN "closed" ELSE s_driver
    /\ s_exc' = IF ok THEN "none" ELSE "caught"
    /\ s_pc' = "return"
    /\ UNCHANGED <<s_script, s_polls, s_log, cmpVars, dbVars, buildVars, extractVars, newVars>>

\* wait_and_link: driver.verify_connectivity() inside the try
WalVerify(ok) ==
    /\ s_pc = "wal_verify"
    /\ s_exc' = IF ok THEN "none" ELSE "raised"
    /\ s_pc' = IF ok THEN "wal_poll" ELSE "wal_except"
    /\ UNCHANGED <<s_script, s_driver, s_polls, s_log, cmpVars, dbVars, buildVars, extractVars, newVars>>

\* one iteration of while time.time() - start_time < 1200: the Jurisdiction
\* query, then break or sleep(10)
WalPoll(outcome) ==
    /\ s_pc = "wal_poll"
    /\ s_polls < MaxPolls
    /\ s_polls' = IF outcome = "absent" THEN s_polls + 1 ELSE s_polls
    /\ s_exc' = IF outcome = "raises" THEN "raised" ELSE s_exc
    /\ s_pc' = CASE outcome = "found" -> "wal_link"
                 [] outcome = "absent" -> "wal_poll"
                 [] outcome = "raises" -> "wal_except"
    /\ UNCHANGED <<s_script, s_driver, s_log, cmpVars, dbVars, buildVars, extractVars, newVars>>

\* the loop condition fails: if not built: print timeout; return
WalTimeout ==
    /\ s_pc = "wal_poll"
    /\ s_polls = MaxPolls
    /\ s_pc' = "wal_finally"
    /\ UNCHANGED <<s_script, s_driver, s_exc, s_polls, s_log, cmpVars, dbVars, buildVars, extractVars, newVars>>

\* links = session.run(link_query, prefix=prefix).single()["links_created"]
WalLink(ok) ==
    /\ s_pc = "wal_link"
    /\ s_exc' = IF ok THEN s_exc ELSE "raised"
    /\ s_pc' = IF ok THEN "wal_test" ELSE "wal_except"
    /\ UNCHANGED <<s_script, s_driver, s_polls, s_log, cmpVars, dbVars, buildVars, extractVars, newVars>>

\* rules = session.run(test_query).single()["rules"]
WalTest(ok) ==
    /\ s_pc = "wal_test"
    /\ s_exc' = IF ok THEN s_exc ELSE "raised"
    /\ s_pc' = IF ok THEN "wal_finally" ELSE "wal_except"
    /\ UNCHANGED <<s_script, s_driver, s_polls, s_log, cmpVars, dbVars, buildVars, extractVars, newVars>>

\* except Exception as e: print(f"Error: {e}")
WalExcept ==
    /\ s_pc = "wal_except"
    /\ s_exc' = "caught"
    /\ s_pc' = "wal_finally"
    /\ UNCHANGED <<s_script, s_driver, s_polls, s_log, cmpVars, dbVars, buildVars, extractVars, newVars>>

\* finally: driver.close()
WalFinally ==
    /\ s_pc = "wal_finally"
    /\ s_driver' = "closed"
    /\ s_pc' = "return"
    /\ UNCHANGED <<s_script, s_exc, s_polls, s_log, cmpVars, dbVars, buildVars, extractVars, newVars>>

\* cmd_validate -> validate_schema_compatibility: the db.labels() query;
\* neither function has an except clause
ValLabels(ok) ==
    /\ s_pc = "val_labels"
    /\ s_exc' = IF ok THEN s_exc ELSE "raised"
    /\ s_pc' = IF ok THEN "val_rel_types" ELSE "val_finally"
    /\ UNCHANGED <<s_script, s_driver, s_polls, s_log, cmpVars, dbVars, buildVars, extractVars, newVars>>

\* validate_schema_compatibility: the db.relationshipTypes() query
ValRelTypes(ok) ==
    /\ s_pc = "val_rel_types"
    /\ s_exc' = IF ok THEN s_exc ELSE "raised"
    /\ s_pc' = "val_finally"
    /\ UNCHANGED <<s_script, s_driver, s_polls, s_log, cmpVars, dbVars, buildVars, extractVars, newVars>>

\* cmd_validate's finally: driver.close(); an exception under way goes on to
\* asyncio.run and main, which do not catch it
ValFinally ==
    /\ s_pc = "val_finally"
    /\ s_driver' = "closed"
    /\ s_exc' = IF s_exc = "raised" THEN "propagated" ELSE s_exc
    /\ s_pc' = "return"
    /\ UNCHANGED <<s_script, s_polls, s_log, cmpVars, dbVars, buildVars, extractVars, newVars>>

\* check_parcel_subdiv.py: result = driver.session().run(query).single(),
\* then result['parcel'] ...: a query that raises, or no row (result is
\* None), ends the script before driver.close()
CpsQuery(outcome) ==
    /\ s_pc = "cps_query"
    /\ s_exc' = IF outcome = "row" THEN s_exc ELSE "propagated"
    /\ s_pc' = IF outcome = "row" THEN "cps_close" ELSE "return"
    /\ UNCHANGED <<s_script, s_driver, s_polls, s_log, cmpVars, dbVars, buildVars, extractVars, newVars>>

\* check_parcel_subdiv.py: driver.close(), the last statement
CpsClose ==
    /\ s_pc = "cps_close"
    /\ s_driver' = "closed"
    /\ s_pc' = "return"
    /\ UNCHANGED <<s_script, s_exc, s_polls, s_log, cmpVars, dbVars, buildVars, extractVars, newVars>>

\* the run is over: what it leaves behind
ScriptExit ==
    /\ s_pc = "return"
    /\ s_log' = Append(s_log, [script |-> s_script, driver |-> s_driver, exc |-> s_exc])
    /\ s_script' = "none"
    /\ s_pc' = "idle"
    /\ s_driver' = "none"
    /\ s_exc' = "none"
    /\ s_polls' = 0
    /\ UNCHANGED <<cmpVars, dbVars, buildVars, extractVars, newVars>>

InitScripts ==
    /\ ScriptIdle
    /\ CmpIdle
    /\ DbIdle
    /\ BuildIdle
    /\ ExtractIdle
    /\ NewIdle

NextScripts ==
    \/ \E script \in Scripts : ScriptOpen(script)
    \/ \E ok \in BOOLEAN : VncVerify(ok)
    \/ \E ok \in BOOLEAN : WalVerify(ok)
    \/ \E outcome \in {"found", "absent", "raises"} : WalPoll(outcome)
    \/ WalTimeout
    \/ \E ok \in BOOLEAN : WalLink(ok)
    \/ \E ok \in BOOLEAN : WalTest(ok)
    \/ WalExcept
    \/ WalFinally
    \/ \E ok \in BOOLEAN : ValLabels(ok)
    \/ \E ok \in BOOLEAN : ValRelTypes(ok)
    \/ ValFinally
    \/ \E outcome \in {"row", "no_row", "raises"} : CpsQuery(outcome)
    \/ CpsClose
    \/ ScriptExit

SpecScripts == InitScripts /\ [][NextScripts]_vars

\* C7: every script closes the driver it opened on every execution path: no
\* finished run has left its driver open, whether its queries succeeded or
\* raised.
C7_EveryRunClosesDriver ==
    \A k \in 1..Len(s_log) : s_log[k].driver # "open"

\* the same for the scripts that close in a finally block
FinallyScriptsCloseDriver ==
    \A k \in 1..Len(s_log) :
        s_log[k].script \in {"wait_and_link", "cmd_validate"} => s_log[k].driver = "closed"

\* C8: an exception raised by a database query is caught by the script's
\* broad handler: no finished run has let an exception out of its entry
\* function.
C8_NoExceptionPropagates ==
    \A k \in 1..Len(s_log) : s_log[k].exc # "propagated"

\* the same for the script that has the handler
HandlerScriptsCatch ==
    \A k \in 1..Len(s_log) :
        s_log[k].script = "wait_and_link" => s_log[k].exc \in {"none", "caught"}

(***************************************************************************)
(* SpecExtract: extract_from_chunks.main.  The graph holds e_n Chunk       *)
(* nodes; chunk k is chunks[k-1] of the list the query returns.            *)
(***************************************************************************)
MaxChunks == 11

\* batch_size = 10
BatchSize == 10

\* a slice that runs one element into the next batch
OverlappingBatch(n, i) == { c \in 1..n : i < c /\ c <= i + BatchSize + 1 }

\* batch = chunks[i:i+batch_size]
Batch(n, i) == { c \in 1..n : i < c /\ c <= i + BatchSize }

\* a process_chunk without its except clause
process_chunk_uncaught(llm_raises) ==
    [raised |-> llm_raises, result |-> IF llm_raises THEN "None" ELSE "data"]

\* process_chunk: try: the LLM call, json.loads, return data /
\* except Exception: print(f"LLM Error: {e}"); return None
process_chunk(llm_raises) ==
    [raised |-> FALSE, result |-> IF llm_raises THEN "None" ELSE "data"]

InitExtract ==
    /\ e_n \in 0..MaxChunks
    /\ e_pc = "start"
    /\ e_driver = "none"
    /\ e_exc = "none"
    /\ e_cause = "none"
    /\ e_i = 0
    /\ e_r = 0
    /\ e_state = [c \in 1..e_n |-> "pending"]
    /\ e_calls = [c \in 1..e_n |-> 0]
    /\ e_failed = {}
    /\ CmpIdle
    /\ DbIdle
    /\ BuildIdle
    /\ ScriptIdle
    /\ NewIdle

\* an exception inside the try of main: control passes to the finally block
ExtractRaise(cause) ==
    /\ e_pc' = "finally"
    /\ e_exc' = "raised"
    /\ e_cause' = cause

\* driver = GraphDatabase.driver(...); try: driver.verify_connectivity()
ExtractConnect(ok) ==
    /\ e_pc = "start"
    /\ e_driver' = "open"
    /\ IF ok THEN e_pc' = "query" /\ UNCHANGED <<e_exc, e_cause>>
             ELSE ExtractRaise("connect")
    /\ UNCHANGED <<e_n, e_i, e_r, e_state, e_calls, e_failed,
                   cmpVars, dbVars, buildVars, scriptVars, newVars>>

\* result = session.run("MATCH (c:Chunk) RETURN c.id, c.text"); chunks = list(result)
ExtractQueryChunks(ok) ==
    /\ e_pc = "query"
    /\ IF ok THEN e_pc' = "jurisdiction" /\ UNCHANGED <<e_exc, e_cause>>
             ELSE ExtractRaise("query")
    /\ UNCHANGED <<e_driver, e_n, e_i, e_r, e_state, e_calls, e_failed,
                   cmpVars, dbVars, buildVars, scriptVars, newVars>>

\* session.run(MERGE (j:Jurisdiction ...)); batch_size = 10; the loop begins
ExtractMergeJurisdiction(ok) ==
    /\ e_pc = "jurisdiction"
    /\ IF ok THEN e_pc' = "loop" /\ UNCHANGED <<e_exc, e_cause>>
             ELSE ExtractRaise("query")
    /\ UNCHANGED <<e_driver, e_n, e_i, e_r, e_state, e_calls, e_failed,
                   cmpVars, dbVars, buildVars, scriptVars, newVars>>

\* for i in range(0, len(chunks), batch_size): batch = chunks[i:i+batch_size];
\* tasks = [process_chunk(...) for r in batch]; await asyncio.gather(*tasks):
\* every task of the batch runs up to its LLM request before any answer is
\* handled
ExtractGather ==
    /\ e_pc = "loop"
    /\ e_i < e_n
    /\ e_state' = [c \in 1..e_n |-> IF c \in Batch(e_n, e_i) THEN "inflight" ELSE e_state[c]]
    /\ e_calls' = [c \in 1..e_n |-> IF c \in Batch(e_n, e_i) THEN e_calls[c] + 1 ELSE e_calls[c]]
    /\ e_pc' = "gather"
    /\ UNCHANGED <<e_driver, e_exc, e_cause, e_n, e_i, e_r, e_failed,
                   cmpVars, dbVars, buildVars, scriptVars, newVars>>

\* range(0, len(chunks), batch_size) is exhausted: the with and the try end
ExtractLoopEnd ==
    /\ e_pc = "loop"
    /\ e_i >= e_n
    /\ e_pc' = "finally"
    /\ UNCHANGED <<e_driver, e_exc, e_cause, e_n, e_i, e_r, e_state, e_calls, e_failed,
                   cmpVars, dbVars, buildVars, scriptVars, newVars>>

\* the LLM call of chunk c comes back, with an answer or with an exception;
\* process_chunk turns it into its return value
LLMReturns(c, llm_raises) ==
    /\ e_pc = "gather"
    /\ c \in 1..e_n
    /\ e_state[c] = "inflight"
    /\ e_state' = [e_state EXCEPT ![c] = process_chunk(llm_raises).result]
    /\ e_failed' = IF llm_raises THEN e_failed \cup {c} ELSE e_failed
    /\ IF process_chunk(llm_raises).raised
       THEN ExtractRaise("llm")
       ELSE UNCHANGED <<e_pc, e_exc, e_cause>>
    /\ UNCHANGED <<e_driver, e_n, e_i, e_r, e_calls,
                   cmpVars, dbVars, buildVars, scriptVars, newVars>>

\* every task of the batch is done: results = await asyncio.gather(...) returns
GatherReturns ==
    /\ e_pc = "gather"
    /\ \A c \in Batch(e_n, e_i) : e_state[c] # "inflight"
    /\ e_pc' = "write"
    /\ e_r' = e_i + 1
    /\ UNCHANGED <<e_driver, e_exc, e_cause, e_n, e_i, e_state, e_calls, e_failed,
                   cmpVars, dbVars, buildVars, scriptVars, newVars>>

\* for res in results: if not res: continue
SkipResult ==
    /\ e_pc = "write"
    /\ e_r \in Batch(e_n, e_i)
    /\ e_state[e_r] = "None"
    /\ e_state' = [e_state EXCEPT ![e_r] = "skipped"]
    /\ e_r' = e_r + 1
    /\ UNCHANGED <<e_pc, e_driver, e_exc, e_cause, e_n, e_i, e_calls, e_failed,
                   cmpVars, dbVars, buildVars, scriptVars, newVars>>

\* for res in results: the session.run calls for res's sections, zones and
\* relationships; one that raises ends the loops
WriteResult(db_ok) ==
    /\ e_pc = "write"
    /\ e_r \in Batch(e_n, e_i)
    /\ e_state[e_r] = "data"
    /\ IF db_ok
       THEN /\ e_state' = [e_state EXCEPT ![e_r] = "written"]
            /\ e_r' = e_r + 1
            /\ UNCHANGED <<e_pc, e_exc, e_cause>>
       ELSE /\ ExtractRaise("write")
            /\ UNCHANGED <<e_state, e_r>>
    /\ UNCHANGED <<e_driver, e_n, e_i, e_calls, e_failed,
                   cmpVars, dbVars, buildVars, scriptVars, newVars>>

\* the results of the batch are through: print(f"Processed ..."), next i
BatchDone ==
    /\ e_pc = "write"
    /\ e_r \notin Batch(e_n, e_i)
    /\ e_i' = e_i + BatchSize
    /\ e_pc' = "loop"
    /\ UNCHANGED <<e_driver, e_exc, e_cause, e_n, e_r, e_state, e_calls, e_failed,
                   cmpVars, dbVars, buildVars, scriptVars, newVars>>

\* finally: driver.close(); main has no except clause
ExtractFinally ==
    /\ e_pc = "finally"
    /\ e_driver' = "closed"
    /\ e_exc' = IF e_exc = "raised" THEN "propagated" ELSE e_exc
    /\ e_pc' = "exit"
    /\ UNCHANGED <<e_cause, e_n, e_i, e_r, e_state, e_calls, e_failed,
                   cmpVars, dbVars, buildVars, scriptVars, newVars>>

NextExtract ==
    \/ \E ok \in BOOLEAN : ExtractConnect(ok)
    \/ \E ok \in BOOLEAN : ExtractQueryChunks(ok)
    \/ \E ok \in BOOLEAN : ExtractMergeJurisdiction(ok)
    \/ ExtractGather
    \/ ExtractLoopEnd
    \/ \E c \in 1..MaxChunks, llm_raises \in BOOLEAN : LLMReturns(c, llm_raises)
    \/ GatherReturns
    \/ SkipResult
    \/ \E db_ok \in BOOLEAN : WriteResult(db_ok)
    \/ BatchDone
    \/ ExtractFinally

SpecExtract == InitExtract /\ [][NextExtract]_vars

(***************************************************************************)
(* Statements about the batches of extract_from_chunks.                    *)
(***************************************************************************)
\* the consecutive batches of at most 10 the statements speak of: chunks
\* 1..10 are batch 0, chunks 11..20 batch 1, ...
BatchOf(c) == (c - 1) \div 10
InFlight == { c \in 1..e_n : e_state[c] = "inflight" }
Processed == { "written", "skipped" }
RanToEnd == e_pc = "exit" /\ e_exc = "none"

\* C9: the chunks are processed in consecutive batches of at most 10: at
\* most 10 LLM calls are in flight at any time; the calls of one batch are
\* in flight together (none of a batch waits while another of it runs); no
\* call of a later batch has started before every call of each earlier
\* batch has returned and its result has been written or skipped; no chunk
\* is ever submitted twice, and a run that reaches the end of its loop has
\* submitted every chunk exactly once.
C9_BatchesOfTen ==
    /\ Cardinality(InFlight) <= 10
    /\ \A c \in 1..e_n : e_calls[c] <= 1
    /\ \A c, d \in 1..e_n :
          (BatchOf(c) = BatchOf(d) /\ e_state[c] = "inflight") => e_state[d] # "pending"
    /\ \A c, d \in 1..e_n :
          (BatchOf(c) < BatchOf(d) /\ e_state[d] # "pending") => e_state[c] \in Processed
    /\ RanToEnd => \A c \in 1..e_n : e_calls[c] = 1

\* a run over more than one batch has ended, every chunk submitted once
C9_Witness ==
    /\ RanToEnd
    /\ e_n > 10
    /\ \A c \in 1..e_n : e_calls[c] = 1 /\ e_state[c] \in Processed

\* C10: a failed LLM call is caught and its chunk skipped: no run is ended
\* by an LLM failure, the result of a failed call is never written, and in a
\* run that reaches the end of its loop every chunk whose call succeeded has
\* been written, whatever other calls of its batch or of earlier batches
\* failed.
C10_FailedCallSkipped ==
    /\ e_cause # "llm"
    /\ \A c \in e_failed : e_state[c] \in {"None", "skipped"}
    /\ RanToEnd =>
          \A c \in 1..e_n : e_state[c] = IF c \in e_failed THEN "skipped" ELSE "written"

\* a run has ended in which a call of the first batch failed, another chunk
\* of that batch was written, and a chunk of the next batch was written
C10_Witness ==
    /\ RanToEnd
    /\ \E c, d \in 1..e_n :
          /\ c # d /\ BatchOf(c) = 0 /\ BatchOf(d) = 0
          /\ c \in e_failed /\ e_state[c] = "skipped"
          /\ e_state[d] = "written"
    /\ \E c \in 1..e_n : BatchOf(c) = 1 /\ e_state[c] = "written"

(***************************************************************************)
(* SpecEnrich: SubdivisionParcelEnricher.enrich_all_subdivisions, with     *)
(* load_csv_data, check_subdivision_existence and enrich_subdivision_batch.*)
(* A CSV field is a Python str, held as the sequence of its characters.    *)
(* The CSV file is rectangular: every row has every column.  Of the seven  *)
(* data columns UNIT_COUNT (converted with int) and LEGAL_LINE are kept;   *)
(* the other five are handled by the code exactly like LEGAL_LINE.         *)
(***************************************************************************)
MaxRows == 3

\* batch_size = 1000 in the source; the batch loop is explored with small
\* batch sizes so that full and partial batches occur
EnrichBatchSize == 2

RECURSIVE lstrip(_)
lstrip(str) == IF str # <<>> /\ Head(str) = " " THEN lstrip(Tail(str)) ELSE str

RECURSIVE rstrip(_)
rstrip(str) ==
    IF str # <<>> /\ str[Len(str)] = " " THEN rstrip(SubSeq(str, 1, Len(str) - 1)) ELSE str

\* str.strip()
strip(str) == rstrip(lstrip(str))

\* int(text) succeeds: text is a non-empty run of digits
IsIntLiteral(text) == text # <<>> /\ \A k \in 1..Len(text) : IsInt(text[k])

\* int(text) for a text that int accepts (0 stands for "no value" otherwise:
\* the call has raised ValueError)
RECURSIVE int(_)
int(text) ==
    IF ~IsIntLiteral(text) THEN 0
    ELSE IF Len(text) = 1 THEN IntOf(text[1])
    ELSE 10 * int(SubSeq(text, 1, Len(text) - 1)) + IntOf(text[Len(text)])

\* Python None or a value
NoneValue(dflt) == [none |-> TRUE, val |-> dflt]
Some(v) == [none |-> FALSE, val |-> v]

\* the dict stored for a row; int(unit_count) if unit_count else None,
\* legal_line if legal_line else None
ParcelData(row) ==
    LET folio8 == strip(row.FOLIO8)
        unit_count == strip(row.UNIT_COUNT)
        legal_line == strip(row.LEGAL_LINE)
    IN [subdivision_id |-> SubSeq(folio8, 1, 8),
        folio8 |-> folio8,
        unit_count |-> IF unit_count # <<>> THEN Some(int(unit_count)) ELSE NoneValue(0),
        legal_line |-> IF legal_line # <<>> THEN Some(legal_line) ELSE NoneValue(<<>>)]

\* the keys of subdivision_data
Keys(data) == { data[k].subdivision_id : k \in 1..Len(data) }

\* subdivision_data[subdivision_id] = {...} without the membership test
StoreAlways(data, rec) ==
    IF rec.subdivision_id \in Keys(data)
    THEN [k \in 1..Len(data) |->
             IF data[k].subdivision_id = rec.subdivision_id THEN rec ELSE data[k]]
    ELSE Append(data, rec)

\* if subdivision_id not in subdivision_data: subdivision_data[subdivision_id] = {...}
StoreFirst(data, rec) ==
    IF rec.subdivision_id \in Keys(data) THEN data ELSE Append(data, rec)

\* the CSV rows explored
A8 == <<"5", "0", "3", "9", "1", "1", "0", "7">>
B8 == <<"5", "0", "3", "9", "1", "1", "0", "8">>
C8 == <<"5", "0", "4", "0", "2", "2", "0", "1">>
CsvRow(folio8, unit_count, legal_line) ==
    [FOLIO8 |-> folio8, UNIT_COUNT |-> unit_count, LEGAL_LINE |-> legal_line]

RowVals ==
    { CsvRow(A8 \o <<"0">>, <<"1", "2">>, <<"L", "1">>),
      CsvRow(A8 \o <<"1">>, <<>>, <<>>),
      CsvRow(<<" ">> \o A8 \o <<"2", " ">>, <<"x">>, <<"L", "2">>),
      CsvRow(B8, <<"3">>, <<" ">>),
      CsvRow(B8 \o <<"4">>, <<"1", ".", "0">>, <<"L", "1">>),
      CsvRow(C8 \o <<"5">>, <<>>, <<"L", "1">>),
      CsvRow(SubSeq(A8, 1, 7), <<"x">>, <<"L", "1">>),
      CsvRow(<<" ", " ">> \o SubSeq(B8, 1, 7), <<"3">>, <<>>),
      CsvRow(<<>>, <<"3">>, <<"L", "2">>) }

SubdivisionIds == { A8, B8, C8 }

InitEnrich ==
    /\ n_csv \in SeqsUpTo(RowVals, MaxRows)
    /\ n_db \in SUBSET SubdivisionIds
    /\ n_pc = "load"
    /\ n_row = 0
    /\ n_data = <<>>
    /\ n_exc = "none"
    /\ n_exist = {}
    /\ n_k = 0
    /\ n_batch = <<>>
    /\ n_sent = <<>>
    /\ n_updated = 0
    /\ n_enriched = {}
    /\ CmpIdle
    /\ DbIdle
    /\ BuildIdle
    /\ ScriptIdle
    /\ ExtractIdle
    /\ LinksIdle
    /\ ExportIdle
    /\ MigrateIdle
    /\ NormalizeIdle
    /\ WaitIdle

\* load_csv_data: one iteration of for row in reader
LoadRow ==
    /\ n_pc = "load"
    /\ n_row < Len(n_csv)
    /\ n_row' = n_row + 1
    /\ LET row == n_csv[n_row + 1]
           folio8 == strip(row.FOLIO8)
           unit_count == strip(row.UNIT_COUNT)
       IN IF Len(folio8) >= 8
          THEN IF /\ StoreFirst(n_data, ParcelData(row)) # n_data
                  /\ unit_count # <<>>
                  /\ ~IsIntLiteral(unit_count)
               THEN /\ n_exc' = "ValueError"
                    /\ n_pc' = "raised"
                    /\ UNCHANGED n_data
               ELSE /\ n_data' = StoreFirst(n_data, ParcelData(row))
                    /\ UNCHANGED <<n_exc, n_pc>>
          ELSE UNCHANGED <<n_data, n_exc, n_pc>>
    /\ UNCHANGED <<n_csv, n_db, n_exist, n_k, n_batch, n_sent, n_updated, n_enriched,
                   exceptEnrich>>

\* load_csv_data: the file is read through; return subdivision_data
LoadReturn ==
    /\ n_pc = "load"
    /\ n_row = Len(n_csv)
    /\ n_pc' = "loaded"
    /\ UNCHANGED <<n_csv, n_db, n_row, n_data, n_exc, n_exist, n_k, n_batch, n_sent,
                   n_updated, n_enriched, exceptEnrich>>

\* if not subdivision_data: print warning; return
EnrichNoData ==
    /\ n_pc = "loaded"
    /\ n_data = <<>>
    /\ n_pc' = "done"
    /\ UNCHANGED <<n_csv, n_db, n_row, n_data, n_exc, n_exist, n_k, n_batch, n_sent,
                   n_updated, n_enriched, exceptEnrich>>

\* existence_map = self.check_subdivision_existence(subdivision_ids); the
\* query is not inside a try; if existing_count == 0: return
CheckExistence(query_ok) ==
    /\ n_pc = "loaded"
    /\ n_data # <<>>
    /\ IF query_ok
       THEN /\ n_exist' = Keys(n_data) \cap n_db
            /\ n_pc' = IF Keys(n_data) \cap n_db = {} THEN "done" ELSE "loop"
            /\ UNCHANGED n_exc
       ELSE /\ n_exc' = "query"
            /\ n_pc' = "raised"
            /\ UNCHANGED n_exist
    /\ UNCHANGED <<n_csv, n_db, n_row, n_data, n_k, n_batch, n_sent,
                   n_updated, n_enriched, exceptEnrich>>

\* if len(batch) > batch_size
BatchOverfull(batch) == Len(batch) > EnrichBatchSize

\* if len(batch) >= batch_size
BatchFull(batch) == Len(batch) >= EnrichBatchSize

\* enrich_subdivision_batch(batch_data): UNWIND, MATCH, SET, RETURN count(s);
\* except Exception: return 0
enrich_subdivision_batch(batch_data, query_ok) ==
    LET matched == { batch_data[k].subdivision_id : k \in 1..Len(batch_data) } \cap n_db
        rows == { k \in 1..Len(batch_data) : batch_data[k].subdivision_id \in n_db }
    IN [updated |-> IF query_ok THEN Cardinality(rows) ELSE 0,
        enriched |-> IF query_ok THEN matched ELSE {}]

\* what a call of enrich_subdivision_batch leaves behind
SendBatch(batch_data, query_ok) ==
    LET res == enrich_subdivision_batch(batch_data, query_ok)
    IN /\ n_sent' = Append(n_sent, [ids |-> [k \in 1..Len(batch_data) |->
                                                batch_data[k].subdivision_id],
                                    ok |-> query_ok,
                                    updated |-> res.updated])
       /\ n_updated' = n_updated + res.updated
       /\ n_enriched' = n_enriched \cup res.enriched

\* one iteration of for subdivision_id, data in subdivision_data.items()
EnrichItem(query_ok) ==
    /\ n_pc = "loop"
    /\ n_k < Len(n_data)
    /\ n_k' = n_k + 1
    /\ LET data == n_data[n_k + 1]
       IN IF data.subdivision_id \in n_exist
          THEN IF BatchFull(Append(n_batch, data))
               THEN /\ SendBatch(Append(n_batch, data), query_ok)
                    /\ n_batch' = <<>>
               ELSE /\ n_batch' = Append(n_batch, data)
                    /\ query_ok
                    /\ UNCHANGED <<n_sent, n_updated, n_enriched>>
          ELSE /\ query_ok
               /\ UNCHANGED <<n_batch, n_sent, n_updated, n_enriched>>
    /\ UNCHANGED <<n_csv, n_db, n_pc, n_row, n_data, n_exc, n_exist, exceptEnrich>>

\* the loop is over: if batch: enrich_subdivision_batch(batch); the summary
EnrichRemaining(query_ok) ==
    /\ n_pc = "loop"
    /\ n_k = Len(n_data)
    /\ IF n_batch # <<>>
       THEN SendBatch(n_batch, query_ok)
       ELSE query_ok /\ UNCHANGED <<n_sent, n_updated, n_enriched>>
    /\ n_pc' = "done"
    /\ UNCHANGED <<n_csv, n_db, n_row, n_data, n_exc, n_exist, n_k, n_batch, exceptEnrich>>

NextEnrich ==
    \/ LoadRow
    \/ LoadReturn
    \/ EnrichNoData
    \/ \E query_ok \in BOOLEAN : CheckExistence(query_ok)
    \/ \E query_ok \in BOOLEAN : EnrichItem(query_ok)
    \/ \E query_ok \in BOOLEAN : EnrichRemaining(query_ok)

SpecEnrich == InitEnrich /\ [][NextEnrich]_vars

(***************************************************************************)
(* Statements about load_csv_data and enrich_all_subdivisions.             *)
(***************************************************************************)
\* the FOLIO8 value of row k (the field without surrounding blanks), and the
\* rows whose FOLIO8 has at least 8 characters
Folio(k) == strip(n_csv[k].FOLIO8)
LongRows == { k \in 1..Len(n_csv) : Len(Folio(k)) >= 8 }
First8(k) == SubSeq(Folio(k), 1, 8)
FirstRowOf(key) ==
    CHOOSE k \in LongRows : First8(k) = key /\ \A j \in LongRows : First8(j) = key => k <= j
LoadReturned == n_pc \notin {"idle", "load", "raised"} \/ (n_pc = "raised" /\ n_exc = "query")

\* C11: the mapping load_csv_data returns has as keys exactly the first 8
\* characters of the FOLIO8 value of the rows whose FOLIO8 has at least 8
\* characters, one entry per key; the data stored for a key comes from the
\* first such row in file order; rows with a shorter or empty FOLIO8
\* contribute nothing.
C11_LoadKeysAndFirstRow ==
    LoadReturned =>
        /\ Keys(n_data) = { First8(k) : k \in LongRows }
        /\ Len(n_data) = Cardinality(Keys(n_data))
        /\ \A d \in Range(n_data) :
              LET row == n_csv[FirstRowOf(d.subdivision_id)]
              IN /\ d.folio8 = Folio(FirstRowOf(d.subdivision_id))
                 /\ d.unit_count = ParcelData(row).unit_count
                 /\ d.legal_line = ParcelData(row).legal_line

\* a mapping was returned for a file in which two rows share a key and
\* differ in their data, and a row has a short, non-empty FOLIO8
C11_Witness ==
    /\ LoadReturned
    /\ \E j, k \in LongRows :
          j < k /\ First8(j) = First8(k) /\ ParcelData(n_csv[j]) # ParcelData(n_csv[k])
    /\ \E k \in 1..Len(n_csv) : k \notin LongRows /\ Folio(k) # <<>>

\* load_csv_data raises only ValueError, from int(unit_count) of the first
\* row of a key
LoadRaisesOnlyOnUnitCount ==
    (n_pc = "raised" /\ n_exc = "ValueError") =>
        /\ n_row \in LongRows
        /\ First8(n_row) \notin Keys(n_data)
        /\ ~IsIntLiteral(strip(n_csv[n_row].UNIT_COUNT))

SentIds == UNION { Range(n_sent[b].ids) : b \in 1..Len(n_sent) }
RECURSIVE SentCount(_)
SentCount(sent) == IF sent = <<>> THEN 0 ELSE Len(Head(sent).ids) + SentCount(Tail(sent))
RECURSIVE UpdatedByOk(_)
UpdatedByOk(sent) ==
    IF sent = <<>> THEN 0
    ELSE (IF Head(sent).ok THEN Len(Head(sent).ids) ELSE 0) + UpdatedByOk(Tail(sent))

\* C12: no batch handed to enrich_subdivision_batch is empty or larger than
\* the batch size; only subdivisions that exist in the database are sent,
\* none twice; a batch whose query fails counts 0 updates; when
\* enrich_all_subdivisions has ended, every subdivision of the mapping that
\* exists in the database has been sent (the last partial batch included),
\* whatever batches failed before.
C12_EnrichBatches ==
    /\ \A b \in 1..Len(n_sent) :
          /\ Len(n_sent[b].ids) \in 1..EnrichBatchSize
          /\ ~n_sent[b].ok => n_sent[b].updated = 0
    /\ SentIds \subseteq n_db \cap Keys(n_data)
    /\ SentCount(n_sent) = Cardinality(SentIds)
    /\ n_updated = UpdatedByOk(n_sent)
    /\ n_pc = "done" => SentIds = n_db \cap Keys(n_data)

\* a run has ended after a full batch whose query failed and a last partial
\* batch whose query succeeded
C12_Witness ==
    /\ n_pc = "done"
    /\ Len(n_sent) = 2
    /\ ~n_sent[1].ok /\ Len(n_sent[1].ids) = EnrichBatchSize
    /\ n_sent[2].ok /\ Len(n_sent[2].ids) < EnrichBatchSize

(***************************************************************************)
(* create_subdivision_links_batch.py: the Subdivision nodes are MERGEd     *)
(* from the parcel ids, then the parcels that have no BELONGS_TO           *)
(* relationship to a Subdivision are linked batch by batch until a batch   *)
(* creates nothing.  A Parcel node is its position in l_parcels; a         *)
(* Subdivision node is its subdivision_id; strings are sequences of        *)
(* characters.                                                             *)
(***************************************************************************)
MaxParcels == 3
\* batch_size = 10000 in the source; the loop is explored with small batches
LinkBatchSize == 2

\* a Parcel without the parcel_id property
LNull == <<"null">>

\* Cypher substring(original, start, length)
substring(original, start, length) ==
    SubSeq(original, start + 1,
           IF Len(original) < start + length THEN Len(original) ELSE start + length)

subdiv_id_short(parcel_id) == substring(parcel_id, 0, 7)

\* substring(p.parcel_id, 0, 8) as subdiv_id
subdiv_id(parcel_id) == substring(parcel_id, 0, 8)

\* MATCH (p:Parcel) WHERE p.parcel_id IS NOT NULL
WithParcelId(parcels) == { p \in DOMAIN parcels : parcels[p] # LNull }

AnyWithParcelId(parcels, links) == WithParcelId(parcels)

\* ... AND NOT exists((p)-[:BELONGS_TO]->(:Subdivision))
Unlinked(parcels, links) ==
    { p \in WithParcelId(parcels) : ~ \E l \in links : l[1] = p }

\* WITH p LIMIT $batch_size: any batch_size of the rows, or all of them
Limit(rows, n) ==
    { sel \in SUBSET rows :
        Cardinality(sel) = (IF Cardinality(rows) < n THEN Cardinality(rows) ELSE n) }

\* MATCH (s:Subdivision {subdivision_id: subdiv_id}) CREATE (p)-[:BELONGS_TO]->(s)
Created(sel, parcels, subdivs) ==
    { <<p, subdiv_id(parcels[p])>> : p \in { q \in sel : subdiv_id(parcels[q]) \in subdivs } }

ParcelIdVals ==
    { A8 \o <<"0", "1">>, B8 \o <<"0", "1">>, <<"5", "0", "3">>, LNull }

\* the graphs the script starts on: some parcels are linked already, to the
\* Subdivision of their parcel_id or to another one
InitLinks ==
    /\ l_parcels \in SeqsUpTo(ParcelIdVals, MaxParcels)
    /\ l_subdivs \in SUBSET { A8, B8 }
    /\ \E f \in [DOMAIN l_parcels -> l_subdivs \cup {LNull}] :
           l_links = { <<p, f[p]>> : p \in { q \in DOMAIN l_parcels : f[q] # LNull } }
    /\ l_before = l_links
    /\ l_pc = "connect"
    /\ l_exc = "none"
    /\ l_created = -1
    /\ l_total = 0
    /\ CmpIdle
    /\ DbIdle
    /\ BuildIdle
    /\ ScriptIdle
    /\ ExtractIdle
    /\ EnrichIdle
    /\ ExportIdle
    /\ MigrateIdle
    /\ NormalizeIdle
    /\ WaitIdle

\* driver.verify_connectivity()
LinkConnect(connect_ok) ==
    /\ l_pc = "connect"
    /\ IF connect_ok
       THEN /\ l_pc' = "subdivisions"
            /\ UNCHANGED l_exc
       ELSE /\ l_exc' = "raised"
            /\ l_pc' = "except"
    /\ UNCHANGED <<l_parcels, l_subdivs, l_links, l_before, l_created, l_total>>
    /\ UNCHANGED exceptLink

\* Phase 1: MERGE (s:Subdivision {subdivision_id: subdiv_id})
CreateSubdivisions(query_ok) ==
    /\ l_pc = "subdivisions"
    /\ IF query_ok
       THEN /\ l_subdivs' =
                   l_subdivs \cup { subdiv_id(l_parcels[p]) : p \in WithParcelId(l_parcels) }
            /\ l_pc' = "batch"
            /\ UNCHANGED l_exc
       ELSE /\ l_exc' = "raised"
            /\ l_pc' = "except"
            /\ UNCHANGED l_subdivs
    /\ UNCHANGED <<l_parcels, l_links, l_before, l_created, l_total>>
    /\ UNCHANGED exceptLink

\* Phase 2: one iteration of while True; total_created is explored up to
\* MaxParcels
LinkBatch(sel, query_ok) ==
    /\ l_pc = "batch"
    /\ l_total <= MaxParcels
    /\ sel \in Limit(Unlinked(l_parcels, l_links), LinkBatchSize)
    /\ IF query_ok
       THEN LET new == Created(sel, l_parcels, l_subdivs)
            IN /\ l_links' = l_links \cup new
               /\ l_created' = Cardinality(new)
               /\ l_total' = l_total + Cardinality(new)
               /\ l_pc' = IF Cardinality(new) > 0 THEN "batch" ELSE "verify"
               /\ UNCHANGED l_exc
       ELSE /\ l_exc' = "raised"
            /\ l_pc' = "except"
            /\ UNCHANGED <<l_links, l_created, l_total>>
    /\ UNCHANGED <<l_parcels, l_subdivs, l_before>>
    /\ UNCHANGED exceptLink

\* Verify: the three counting queries
LinkVerify(query_ok) ==
    /\ l_pc = "verify"
    /\ IF query_ok
       THEN /\ l_pc' = "finally"
            /\ UNCHANGED l_exc
       ELSE /\ l_exc' = "raised"
            /\ l_pc' = "except"
    /\ UNCHANGED <<l_parcels, l_subdivs, l_links, l_before, l_created, l_total>>
    /\ UNCHANGED exceptLink

\* except Exception as e: print
LinkExcept ==
    /\ l_pc = "except"
    /\ l_exc' = "caught"
    /\ l_pc' = "finally"
    /\ UNCHANGED <<l_parcels, l_subdivs, l_links, l_before, l_created, l_total>>
    /\ UNCHANGED exceptLink

\* finally: driver.close()
LinkFinally ==
    /\ l_pc = "finally"
    /\ l_pc' = "exit"
    /\ UNCHANGED <<l_parcels, l_subdivs, l_links, l_before, l_exc, l_created, l_total>>
    /\ UNCHANGED exceptLink

NextLinks ==
    \/ \E connect_ok \in BOOLEAN : LinkConnect(connect_ok)
    \/ \E query_ok \in BOOLEAN : CreateSubdivisions(query_ok)
    \/ \E sel \in SUBSET DOMAIN l_parcels, query_ok \in BOOLEAN : LinkBatch(sel, query_ok)
    \/ \E query_ok \in BOOLEAN : LinkVerify(query_ok)
    \/ LinkExcept
    \/ LinkFinally

SpecLinks == InitLinks /\ [][NextLinks]_vars

\* the interpreter runs the next statement of the script
SpecLinksLive == InitLinks /\ [][NextLinks]_vars /\ WF_vars(NextLinks)

(***************************************************************************)
(* Properties of create_subdivision_links_batch.                           *)
(***************************************************************************)
LinkedNow(p) == { l[2] : l \in { k \in l_links : k[1] = p } }
LinkedBefore(p) == { l[2] : l \in { k \in l_before : k[1] = p } }
NoParcelLeft ==
    \A p \in DOMAIN l_parcels : l_parcels[p] # LNull => LinkedNow(p) # {}
LoopLeft == l_pc \in {"verify", "finally", "exit"} /\ l_exc = "none"

\* C13: the script ends on every graph, after no more relationships than
\* there are parcels; when no query raises, its loop ends with a batch that
\* created 0 relationships, and a batch creates 0 relationships only when no
\* Parcel that has a parcel_id is left without a BELONGS_TO relationship to a
\* Subdivision
C13_LinksRunToCompletion ==
    /\ <>(l_pc = "exit")
    /\ [](l_total <= Len(l_parcels))
    /\ [](l_pc = "exit" /\ l_exc = "none" => l_created = 0)
    /\ [](LoopLeft => l_created = 0)
    /\ [](l_created = 0 => NoParcelLeft)

\* a run that needed more than one full batch and ended with the empty batch
C13_Witness ==
    /\ l_pc = "exit"
    /\ l_exc = "none"
    /\ l_created = 0
    /\ Cardinality(l_links \ l_before) > LinkBatchSize

FirstEight(text) == SubSeq(text, 1, IF Len(text) < 8 THEN Len(text) ELSE 8)
CompletedWithoutError == l_pc = "exit" /\ l_exc = "none"

\* C20 as stated: after a run that completes without error, every Parcel that
\* has a parcel_id has a BELONGS_TO relationship to the Subdivision whose
\* subdivision_id is the first 8 characters of that parcel_id, whatever
\* relationships existed before
C20_EveryParcelLinkedToItsSubdivision ==
    CompletedWithoutError =>
        \A p \in DOMAIN l_parcels :
            l_parcels[p] # LNull => FirstEight(l_parcels[p]) \in LinkedNow(p)

\* C20, amended: after a run that completes without error, every Parcel that
\* has a parcel_id and had no BELONGS_TO relationship to a Subdivision before
\* the run is linked to the Subdivision of the first 8 characters of its
\* parcel_id and to no other; a Parcel that had such a relationship keeps
\* exactly the relationships it had
C20_UnlinkedParcelsLinked ==
    CompletedWithoutError =>
        \A p \in DOMAIN l_parcels :
            l_parcels[p] # LNull =>
                IF LinkedBefore(p) = {}
                THEN LinkedNow(p) = { FirstEight(l_parcels[p]) }
                ELSE LinkedNow(p) = LinkedBefore(p)

\* a completed run that linked a parcel with a long id and one with a short
\* id, and left alone a parcel that was linked to another Subdivision
C20_Witness ==
    /\ CompletedWithoutError
    /\ \E p, q, r \in DOMAIN l_parcels :
           /\ Len(l_parcels[p]) > 8 /\ LinkedBefore(p) = {} /\ LinkedNow(p) # {}
           /\ l_parcels[q] # LNull /\ Len(l_parcels[q]) < 8
           /\ LinkedBefore(q) = {} /\ LinkedNow(q) # {}
           /\ l_parcels[r] # LNull /\ LinkedBefore(r) # {}
           /\ FirstEight(l_parcels[r]) \notin LinkedBefore(r)

(***************************************************************************)
(* SchemaManager.export_schema, called after schema versions were stored.  *)
(***************************************************************************)
\* version: Optional[str] = None
ExportVersions == StoreVersions \cup { None }

\* export_schema(file_path, version)
ExportSchema(version, query_fails, open_fails) ==
    /\ LET schema_version == get_current_schema_version(meta, query_fails)
       IN /\ x_version' = version
          /\ x_graph' = meta
          /\ IF ~schema_version.found
             THEN /\ x_ret' = "False"
                  /\ UNCHANGED x_file
             ELSE IF open_fails
             THEN /\ x_ret' = "False"
                  /\ UNCHANGED x_file
             ELSE /\ x_ret' = "True"
                  /\ x_file' = schema_version
    /\ UNCHANGED <<dbVars, exceptExport>>

InitExport == Init

NextExport ==
    \/ \E schema \in BuildSchemas, version \in StoreVersions, query_fails \in BOOLEAN :
           CmdStore(schema, version, query_fails)
    \/ \E version \in ExportVersions, query_fails \in BOOLEAN, open_fails \in BOOLEAN :
           ExportSchema(version, query_fails, open_fails)

SpecExport == InitExport /\ [][NextExport]_vars

(***************************************************************************)
(* Properties of export_schema.                                            *)
(***************************************************************************)
StoredUnder(graph, version) == CHOOSE n \in graph : n.version = version

\* C14: a successful export_schema(file_path, version=v) wrote the schema
\* stored under version v; it wrote the latest stored schema only when no
\* version was given
C14_ExportsRequestedVersion ==
    (x_ret = "True" /\ x_version # None) =>
        /\ \E n \in x_graph : n.version = x_version
        /\ x_file = SchemaVersion(StoredUnder(x_graph, x_version))

(***************************************************************************)
(* SchemaMigrator.migrate_schema_changes, on the changes compare_schemas   *)
(* returns or on changes the caller built.  A node of the graph is its set *)
(* of labels.                                                              *)
(***************************************************************************)
MaxGraphNodes == 2

\* details of a SchemaChange: {"old": ..., "new": ...} or a dict without them
NoDetails == [has_old_new |-> FALSE, old |-> StrNode(""), new |-> StrNode("")]
OldNew(old, new) == [has_old_new |-> TRUE, old |-> old, new |-> new]
SchemaChange(change, details) ==
    [change_type |-> change.change_type, entity_type |-> change.entity_type,
     name |-> change.name, details |-> details]

\* the details compare_schemas gives to the change it reports
ChangeDetails(old, new, change) ==
    IF change.entity_type = "node_type" /\ change.change_type = "modified"
    THEN OldNew(DictGet(old.node_types, change.name), DictGet(new.node_types, change.name))
    ELSE NoDetails

\* compare_schemas(old, new), each change with its details
SchemaChanges(old, new) ==
    LET changes == compare_schemas(old, new).changes
    IN [i \in 1..Len(changes) |-> SchemaChange(changes[i], ChangeDetails(old, new, changes[i]))]

\* change.details.get(key, {}).get("label") raises AttributeError on a str
LabelRaises(change) ==
    /\ change.details.has_old_new
    /\ \/ change.details.old.kind = "str"
       \/ change.details.new.kind = "str"

\* change.details.get(key, {}).get("label"); None is ""
LabelOf(has, node_type) == IF has THEN node_type.label ELSE ""

\* if old_label and new_label and old_label != new_label
LabelChanged(change) ==
    LET old_label == LabelOf(change.details.has_old_new, change.details.old)
        new_label == LabelOf(change.details.has_old_new, change.details.new)
    IN old_label # "" /\ new_label # "" /\ old_label # new_label

RenamesInDryRun(change, dry_run) == LabelChanged(change)

\* if not dry_run: await self.migrate_node_type_rename(old_label, new_label)
Renames(change, dry_run) == LabelChanged(change) /\ ~dry_run

\* MATCH (n:old_label) SET n:new_label REMOVE n:old_label
RenameLabel(nodes, old_label, new_label) ==
    [k \in DOMAIN nodes |->
        IF old_label \in nodes[k] THEN (nodes[k] \cup {new_label}) \ {old_label}
        ELSE nodes[k]]

\* RETURN count(n) as count
RenameCount(nodes, old_label) ==
    Cardinality({ k \in DOMAIN nodes : old_label \in nodes[k] })

NodeLabels == { {"Section"}, {"Zone"}, {"Section", "Zone"} }

SectionStr == StrNode("Section")
SectionDict == DictNode("Section", "A codified section")
SectionDict2 == DictNode("Section", "A section of the code")
ZoneDict == DictNode("Zone", "Zoning districts")

MigrateSchemas ==
    { MakeSchema(<<SectionDict>>, <<>>, <<>>),
      MakeSchema(<<SectionDict2>>, <<StrRel("APPLIES_TO")>>, <<>>),
      MakeSchema(<<SectionStr>>, <<>>, <<>>),
      MakeSchema(<<ZoneDict>>, <<>>, <<>>),
      MakeSchema(<<SectionDict, ZoneDict>>, <<StrRel("APPLIES_TO")>>, <<>>),
      EmptySchema }

\* changes a caller builds by hand
BuiltChanges ==
    LET rename == SchemaChange(Change("modified", "node_type", "Section"),
                               OldNew(SectionDict, ZoneDict))
        back == SchemaChange(Change("modified", "node_type", "Zone"),
                             OldNew(ZoneDict, SectionDict))
    IN { <<rename>>, <<rename, back>> }

InitMigrate ==
    /\ \/ /\ m_old \in MigrateSchemas
          /\ m_new \in MigrateSchemas
          /\ m_compared = TRUE
          /\ m_changes = SchemaChanges(m_old, m_new)
       \/ /\ m_old = EmptySchema
          /\ m_new = EmptySchema
          /\ m_compared = FALSE
          /\ m_changes \in BuiltChanges
    /\ m_dry_run \in BOOLEAN
    /\ m_nodes \in SeqsUpTo(NodeLabels, MaxGraphNodes)
    /\ m_before = m_nodes
    /\ m_i = 0
    /\ m_pc = "loop"
    /\ m_stats = [nodes_updated |-> 0, relationships_updated |-> 0, warnings |-> 0]
    /\ m_queries = <<>>
    /\ CmpIdle
    /\ DbIdle
    /\ BuildIdle
    /\ ScriptIdle
    /\ ExtractIdle
    /\ EnrichIdle
    /\ LinksIdle
    /\ ExportIdle
    /\ NormalizeIdle
    /\ WaitIdle

\* migrate_node_type_rename(old_label, new_label)
migrate_node_type_rename(nodes, old_label, new_label, query_ok) ==
    IF query_ok
    THEN [nodes |-> RenameLabel(nodes, old_label, new_label),
          nodes_updated |-> RenameCount(nodes, old_label)]
    ELSE [nodes |-> nodes, nodes_updated |-> 0]

\* one iteration of for change in changes
MigrateChange(query_ok) ==
    /\ m_pc = "loop"
    /\ m_i < Len(m_changes)
    /\ LET change == m_changes[m_i + 1]
       IN IF change.change_type = "removed"
          THEN /\ m_stats' =
                     IF change.entity_type \in {"node_type", "relationship_type"}
                     THEN [m_stats EXCEPT !.warnings = @ + 1]
                     ELSE m_stats
               /\ m_i' = m_i + 1
               /\ UNCHANGED <<m_pc, m_nodes, m_queries>>
          ELSE IF change.change_type = "modified" /\ change.entity_type = "node_type"
          THEN IF LabelRaises(change)
               THEN /\ m_pc' = "raised"
                    /\ UNCHANGED <<m_i, m_stats, m_nodes, m_queries>>
               ELSE IF Renames(change, m_dry_run)
               THEN LET old_label == change.details.old.label
                        new_label == change.details.new.label
                        done == migrate_node_type_rename(m_nodes, old_label, new_label, query_ok)
                    IN /\ m_nodes' = done.nodes
                       /\ m_queries' = Append(m_queries, <<old_label, new_label>>)
                       /\ m_stats' = [m_stats EXCEPT !.nodes_updated = @ + done.nodes_updated]
                       /\ m_i' = m_i + 1
                       /\ UNCHANGED m_pc
               ELSE /\ m_i' = m_i + 1
                    /\ UNCHANGED <<m_pc, m_stats, m_nodes, m_queries>>
          ELSE /\ m_i' = m_i + 1
               /\ UNCHANGED <<m_pc, m_stats, m_nodes, m_queries>>
    /\ UNCHANGED <<m_old, m_new, m_compared, m_changes, m_dry_run, m_before>>
    /\ UNCHANGED exceptMigrate

\* return stats
MigrateReturn ==
    /\ m_pc = "loop"
    /\ m_i = Len(m_changes)
    /\ m_pc' = "returned"
    /\ UNCHANGED <<m_old, m_new, m_compared, m_changes, m_dry_run, m_nodes, m_before,
                   m_i, m_stats, m_queries>>
    /\ UNCHANGED exceptMigrate

NextMigrate ==
    \/ \E query_ok \in BOOLEAN : MigrateChange(query_ok)
    \/ MigrateReturn

SpecMigrate == InitMigrate /\ [][NextMigrate]_vars

(***************************************************************************)
(* Properties of migrate_schema_changes.                                   *)
(***************************************************************************)
\* C15: with dry_run=True no write query is run and the graph stays as it
\* was, and the call returns nodes_updated = 0 and relationships_updated = 0
C15_DryRunChangesNothing ==
    m_dry_run =>
        /\ m_queries = <<>>
        /\ m_nodes = m_before
        /\ m_pc = "returned" =>
               m_stats.nodes_updated = 0 /\ m_stats.relationships_updated = 0

\* a dry run that returned after passing a change whose label changed, on a
\* graph that has nodes of the old label
C15_Witness ==
    /\ m_dry_run
    /\ m_pc = "returned"
    /\ \E i \in 1..Len(m_changes) :
           /\ LabelChanged(m_changes[i])
           /\ \E k \in DOMAIN m_nodes : m_changes[i].details.old.label \in m_nodes[k]

\* a node type whose label differs between old_schema and new_schema
RenamedLabels ==
    { pair \in
        { <<get_label(m_old.node_types[i]), get_label(m_new.node_types[i])>> :
            i \in (DOMAIN m_old.node_types) \cap (DOMAIN m_new.node_types) } :
        /\ pair[1] # pair[2]
        /\ \A j \in DOMAIN m_new.node_types : get_label(m_new.node_types[j]) # pair[1]
        /\ \A j \in DOMAIN m_old.node_types : get_label(m_old.node_types[j]) # pair[2] }

\* C19: when a node type's label differs between the old and the new schema,
\* migrate_schema_changes with dry_run false, given the changes of
\* compare_schemas, renames the label through migrate_node_type_rename
C19_LabelChangeRenames ==
    (m_compared /\ ~m_dry_run /\ m_pc = "returned") =>
        \A pair \in RenamedLabels : \E k \in DOMAIN m_queries : m_queries[k] = pair

\* on the changes of compare_schemas no rename query is ever run
CompareNeverRenames == m_compared => m_queries = <<>>

(***************************************************************************)
(* normalize_hoa_ids.py: HOAIDNormalizer.normalize_all_hoas.  Names and    *)
(* city codes are sequences of characters; an hoa_id is the record of the  *)
(* parts its f-string joins.                                               *)
(***************************************************************************)
MaxHoas == 3

LowerCase ==
    <<"a", "b", "c", "d", "e", "f", "g", "h", "i", "j", "k", "l", "m",
      "n", "o", "p", "q", "r", "s", "t", "u", "v", "w", "x", "y", "z">>
UpperCase ==
    <<"A", "B", "C", "D", "E", "F", "G", "H", "I", "J", "K", "L", "M",
      "N", "O", "P", "Q", "R", "S", "T", "U", "V", "W", "X", "Y", "Z">>
\* the characters in code point order
CodePoints == <<" ", "-">> \o Numerals \o UpperCase \o <<"_">> \o LowerCase

\* a property that is not set
HNull == <<"null">>

\* str.upper()
upper(str) ==
    [k \in DOMAIN str |->
        IF \E j \in 1..26 : LowerCase[j] = str[k]
        THEN UpperCase[CHOOSE j \in 1..26 : LowerCase[j] = str[k]]
        ELSE str[k]]

RECURSIVE replace(_, _, _)
\* str.replace(old, new)
replace(str, old, new) ==
    IF Len(str) < Len(old) THEN str
    ELSE IF SubSeq(str, 1, Len(old)) = old
    THEN new \o replace(SubSeq(str, Len(old) + 1, Len(str)), old, new)
    ELSE <<Head(str)>> \o replace(Tail(str), old, new)

RECURSIVE strip_dashes(_)
\* str.strip('-')
strip_dashes(str) ==
    IF str # <<>> /\ Head(str) = "-" THEN strip_dashes(Tail(str))
    ELSE IF str # <<>> /\ str[Len(str)] = "-" THEN strip_dashes(SubSeq(str, 1, Len(str) - 1))
    ELSE str

\* f"{sequence_number:03d}"
format_03d(n) ==
    IF n < 1000
    THEN <<StrOf(n \div 100), StrOf((n \div 10) % 10), StrOf(n % 10)>>
    ELSE <<StrOf(n \div 1000)>> \o <<StrOf((n \div 100) % 10), StrOf((n \div 10) % 10), StrOf(n % 10)>>

\* hoa_id values: the id a node had, a temporary id, or f"HOA-{city}-{seq}-{name_part}"
OldId(k) == [kind |-> "old", city |-> <<>>, seq |-> format_03d(k), name |-> <<>>]
TempId(k) == [kind |-> "TEMP", city |-> <<>>, seq |-> format_03d(k), name |-> <<>>]
NoId == [kind |-> "null", city |-> <<>>, seq |-> <<>>, name |-> <<>>]

generate_hoa_id(hoa_name, city, sequence_number) ==
    LET dashed == replace(replace(upper(hoa_name), <<" ">>, <<"-">>), <<"_">>, <<"-">>)
        no_hoa == replace(dashed, <<"-", "H", "O", "A">>, <<>>)
        no_assoc ==
            replace(no_hoa,
                    <<"-", "A", "S", "S", "O", "C", "I", "A", "T", "I", "O", "N">>, <<>>)
        name_part ==
            strip_dashes(replace(no_assoc,
                                 <<"-", "M", "A", "I", "N", "T", "E", "N", "A", "N", "C", "E">>,
                                 <<>>))
    IN [kind |-> "HOA", city |-> city, seq |-> format_03d(sequence_number),
        name |-> name_part]

\* city_map.get(city_code, city_code)
city_map(city_code) ==
    IF city_code = <<"W", "S">> THEN <<"W", "E", "S", "T", "O", "N">>
    ELSE IF city_code = <<"P", "A">> THEN <<"P", "A", "R", "K", "L", "A", "N", "D">>
    ELSE city_code

UNKNOWN == <<"U", "N", "K", "N", "O", "W", "N">>

\* the rows of get_city_code_from_subdivisions' query before LIMIT 1: the
\* situs_city values with the greatest count over the subdivisions of every
\* HOA of that name
TopCities(hoas, hoa_name) ==
    LET nodes == { k \in DOMAIN hoas : hoas[k].name = hoa_name /\ hoa_name # HNull }
        codes == UNION { Range(hoas[k].cities) : k \in nodes }
        Count(c) ==
            Cardinality(UNION { { <<k, j>> : j \in { i \in DOMAIN hoas[k].cities :
                                                         hoas[k].cities[i] = c } } :
                                k \in nodes })
    IN { c \in codes : \A d \in codes : Count(d) <= Count(c) }

\* get_city_code_from_subdivisions(hoa_name): any of its possible results
CityCodes(hoas, hoa_name) ==
    IF TopCities(hoas, hoa_name) = {} THEN { UNKNOWN }
    ELSE { city_map(c) : c \in TopCities(hoas, hoa_name) }

\* comparison of two strings, by code points
CodeOf(ch) == CHOOSE j \in 1..Len(CodePoints) : CodePoints[j] = ch
RECURSIVE StrLess(_, _)
StrLess(a, b) ==
    IF b = <<>> THEN FALSE
    ELSE IF a = <<>> THEN TRUE
    ELSE IF Head(a) = Head(b) THEN StrLess(Tail(a), Tail(b))
    ELSE CodeOf(Head(a)) < CodeOf(Head(b))

\* ORDER BY hoa.name: ascending, null last
NameBefore(a, b) ==
    IF a = HNull THEN FALSE
    ELSE IF b = HNull THEN TRUE
    ELSE StrLess(a, b)

\* the orders in which MATCH (hoa:HOA) ... ORDER BY hoa.name can return the nodes
OrderedByName(hoas) ==
    { order \in [DOMAIN hoas -> DOMAIN hoas] :
        /\ \A i, j \in DOMAIN hoas : i # j => order[i] # order[j]
        /\ \A i, j \in DOMAIN hoas :
               i < j => ~NameBefore(hoas[order[j]].name, hoas[order[i]].name) }

\* city_sequences[city] after the if / else of the loop
NextSequence(sequences, city) ==
    IF \E pair \in sequences : pair[1] = city
    THEN (CHOOSE pair \in sequences : pair[1] = city)[2] + 1
    ELSE 1

\* MATCH (hoa:HOA {name: $name}) SET hoa.hoa_id = new_id [, hoa.old_hoa_id = old_id]
SetHoaId(hoas, name, new_id, set_old, old_id) ==
    [k \in DOMAIN hoas |->
        IF hoas[k].name = name /\ name # HNull
        THEN [hoas[k] EXCEPT !.hoa_id = new_id,
                             !.old_hoa_id = IF set_old THEN old_id ELSE @]
        ELSE hoas[k]]

BayHoa == <<"B", "a", "y", " ", "H", "O", "A">>
Ab == <<"a", "_", "b">>
HoaNames == { BayHoa, Ab, HNull }
SitusCities == { <<>>, << <<"W", "S">> >>, << <<"W", "S">>, <<"P", "A">> >> }

InitNormalize ==
    /\ \E names \in SeqsUpTo(HoaNames, MaxHoas) :
       \E cities \in [DOMAIN names -> SitusCities] :
           h_hoas = [k \in DOMAIN names |->
                        [name |-> names[k], hoa_id |-> OldId(k), old_hoa_id |-> NoId,
                         cities |-> cities[k]]]
    /\ h_pc = "query"
    /\ h_rows = <<>>
    /\ h_i = 0
    /\ h_sequences = {}
    /\ h_updates = <<>>
    /\ CmpIdle
    /\ DbIdle
    /\ BuildIdle
    /\ ScriptIdle
    /\ ExtractIdle
    /\ EnrichIdle
    /\ LinksIdle
    /\ ExportIdle
    /\ MigrateIdle
    /\ WaitIdle

\* hoas = list(session.run(query))
NormQuery(query_ok) ==
    /\ h_pc = "query"
    /\ IF query_ok
       THEN /\ \E order \in OrderedByName(h_hoas) :
                   h_rows' = [i \in DOMAIN h_hoas |->
                                 [name |-> h_hoas[order[i]].name,
                                  current_id |-> h_hoas[order[i]].hoa_id]]
            /\ h_pc' = "plan"
       ELSE /\ h_pc' = "raised"
            /\ UNCHANGED h_rows
    /\ UNCHANGED <<h_hoas, h_i, h_sequences, h_updates>>
    /\ UNCHANGED exceptNormalize

\* one iteration of for hoa in hoas
NormPlan(query_ok) ==
    /\ h_pc = "plan"
    /\ h_i < Len(h_rows)
    /\ LET hoa_name == h_rows[h_i + 1].name
           current_id == h_rows[h_i + 1].current_id
       IN IF ~query_ok
          THEN /\ h_pc' = "raised"
               /\ UNCHANGED <<h_i, h_sequences, h_updates>>
          ELSE \E city \in CityCodes(h_hoas, hoa_name) :
               LET sequence == NextSequence(h_sequences, city)
               IN /\ h_sequences' =
                         { pair \in h_sequences : pair[1] # city } \cup { <<city, sequence>> }
                  /\ IF hoa_name = HNull
                     THEN \* None.upper() raises AttributeError
                          /\ h_pc' = "raised"
                          /\ UNCHANGED <<h_i, h_updates>>
                     ELSE /\ h_updates' =
                                Append(h_updates,
                                       [name |-> hoa_name, old_id |-> current_id,
                                        new_id |-> generate_hoa_id(hoa_name, city, sequence),
                                        temp_id |-> TempId(Len(h_updates))])
                          /\ h_i' = h_i + 1
                          /\ UNCHANGED h_pc
    /\ UNCHANGED <<h_hoas, h_rows>>
    /\ UNCHANGED exceptNormalize

\* the first loop has passed every row
NormPlanned ==
    /\ h_pc = "plan"
    /\ h_i = Len(h_rows)
    /\ h_pc' = "phase1"
    /\ h_i' = 0
    /\ UNCHANGED <<h_hoas, h_rows, h_sequences, h_updates>>
    /\ UNCHANGED exceptNormalize

\* Phase 1: one iteration of for update in updates
NormTemp(query_ok) ==
    /\ h_pc = "phase1"
    /\ h_i < Len(h_updates)
    /\ IF query_ok
       THEN /\ h_hoas' = SetHoaId(h_hoas, h_updates[h_i + 1].name,
                                  h_updates[h_i + 1].temp_id, FALSE, NoId)
            /\ h_i' = h_i + 1
            /\ UNCHANGED h_pc
       ELSE /\ h_pc' = "raised"
            /\ UNCHANGED <<h_hoas, h_i>>
    /\ UNCHANGED <<h_rows, h_sequences, h_updates>>
    /\ UNCHANGED exceptNormalize

\* Phase 1 has passed every update
NormTempDone ==
    /\ h_pc = "phase1"
    /\ h_i = Len(h_updates)
    /\ h_pc' = "phase2"
    /\ h_i' = 0
    /\ UNCHANGED <<h_hoas, h_rows, h_sequences, h_updates>>
    /\ UNCHANGED exceptNormalize

\* Phase 2: one iteration of for update in updates
NormFinal(query_ok) ==
    /\ h_pc = "phase2"
    /\ h_i < Len(h_updates)
    /\ IF query_ok
       THEN /\ h_hoas' = SetHoaId(h_hoas, h_updates[h_i + 1].name,
                                  h_updates[h_i + 1].new_id, TRUE, h_updates[h_i + 1].old_id)
            /\ h_i' = h_i + 1
            /\ UNCHANGED h_pc
       ELSE /\ h_pc' = "raised"
            /\ UNCHANGED <<h_hoas, h_i>>
    /\ UNCHANGED <<h_rows, h_sequences, h_updates>>
    /\ UNCHANGED exceptNormalize

\* print(f"Updated {len(updates)} HOA IDs"), return
NormReturn ==
    /\ h_pc = "phase2"
    /\ h_i = Len(h_updates)
    /\ h_pc' = "returned"
    /\ UNCHANGED <<h_hoas, h_rows, h_i, h_sequences, h_updates>>
    /\ UNCHANGED exceptNormalize

NextNormalize ==
    \/ \E query_ok \in BOOLEAN : NormQuery(query_ok)
    \/ \E query_ok \in BOOLEAN : NormPlan(query_ok)
    \/ NormPlanned
    \/ \E query_ok \in BOOLEAN : NormTemp(query_ok)
    \/ NormTempDone
    \/ \E query_ok \in BOOLEAN : NormFinal(query_ok)
    \/ NormReturn

SpecNormalize == InitNormalize /\ [][NextNormalize]_vars

(***************************************************************************)
(* Properties of normalize_all_hoas.                                       *)
(***************************************************************************)
IdCities == { h_hoas[k].hoa_id.city : k \in DOMAIN h_hoas }
HoasOfCity(city) == { k \in DOMAIN h_hoas : h_hoas[k].hoa_id.city = city }
SequenceOf(k) == int(h_hoas[k].hoa_id.seq)

\* C16: after normalize_all_hoas every HOA's hoa_id is HOA-<CITY>-<###>-<NAME>
\* with three digits, the numbers of the HOAs of one city are exactly 1..n,
\* and they follow the order of the names
C16_SequencesPerCity ==
    h_pc = "returned" =>
        /\ \A k \in DOMAIN h_hoas :
               h_hoas[k].hoa_id.kind = "HOA" /\ Len(h_hoas[k].hoa_id.seq) = 3
        /\ \A city \in IdCities :
               /\ { SequenceOf(k) : k \in HoasOfCity(city) } = 1..Cardinality(HoasOfCity(city))
               /\ \A a, b \in HoasOfCity(city) :
                      StrLess(h_hoas[a].name, h_hoas[b].name) => SequenceOf(a) < SequenceOf(b)

NamesDistinct ==
    \A a, b \in DOMAIN h_hoas : a # b => h_hoas[a].name # h_hoas[b].name

\* the same when no two HOA nodes have the same name
SequencesPerCityWhenNamesDistinct == NamesDistinct => C16_SequencesPerCity

(***************************************************************************)
(* wait_and_link.py with its clock: the script polls for the Jurisdiction  *)
(* node for up to 1200 seconds, then links.  A query takes some time, a    *)
(* sleep takes at least the time asked for.                                *)
(***************************************************************************)
\* while time.time() - start_time < 1200
TimeoutSeconds == 1200
\* time.sleep(10)
SleepSeconds == 10

\* the seconds a query can take
QuerySeconds == { 0, 5 }
\* the seconds time.sleep(10) can take
SleepDurations == { SleepSeconds, SleepSeconds + 5 }

LoopConditionInclusive(elapsed) == elapsed <= TimeoutSeconds

\* time.time() - start_time < 1200
LoopCondition(elapsed) == elapsed < TimeoutSeconds

\* extract_from_chunks has run its MERGE (j:Jurisdiction ...)
JurisdictionMerged ==
    \/ e_pc \in {"loop", "gather", "write"}
    \/ e_pc \in {"finally", "exit"} /\ e_cause \in {"none", "llm", "write"}

\* MATCH (j:Jurisdiction {name: 'Weston'}) RETURN j returns a row
JurisdictionFound == w_node \/ JurisdictionMerged

WaitStarts ==
    /\ w_pc = "verify"
    /\ w_elapsed = 0
    /\ w_node \in BOOLEAN
    /\ w_built = FALSE
    /\ w_checked = -1
    /\ w_polled = -1
    /\ w_link_run = FALSE
    /\ w_timed_out = FALSE
    /\ w_exc = "none"

\* driver.verify_connectivity()
WaitVerify(ok, seconds) ==
    /\ w_pc = "verify"
    /\ w_elapsed' = w_elapsed + seconds
    /\ IF ok
       THEN /\ w_pc' = "check"
            /\ UNCHANGED w_exc
       ELSE /\ w_pc' = "except"
            /\ w_exc' = "raised"
    /\ UNCHANGED <<w_node, w_built, w_checked, w_polled, w_link_run, w_timed_out>>
    /\ UNCHANGED exceptWait

\* while time.time() - start_time < 1200: the condition is evaluated
WaitCheck ==
    /\ w_pc = "check"
    /\ IF LoopCondition(w_elapsed)
       THEN /\ w_pc' = "poll"
            /\ w_checked' = w_elapsed
       ELSE /\ w_pc' = "timeout"
            /\ UNCHANGED w_checked
    /\ UNCHANGED <<w_elapsed, w_node, w_built, w_polled, w_link_run, w_timed_out, w_exc>>
    /\ UNCHANGED exceptWait

\* result = session.run("MATCH (j:Jurisdiction ...").single(); if result: break
WaitPoll(ok, seconds) ==
    /\ w_pc = "poll"
    /\ w_elapsed' = w_elapsed + seconds
    /\ IF ~ok
       THEN /\ w_pc' = "except"
            /\ w_exc' = "raised"
            /\ UNCHANGED <<w_built, w_polled>>
       ELSE IF JurisdictionFound
       THEN /\ w_built' = TRUE
            /\ w_pc' = "link"
            /\ UNCHANGED <<w_polled, w_exc>>
       ELSE /\ w_polled' = w_elapsed + seconds
            /\ w_pc' = "sleep"
            /\ UNCHANGED <<w_built, w_exc>>
    /\ UNCHANGED <<w_node, w_checked, w_link_run, w_timed_out>>
    /\ UNCHANGED exceptWait

\* time.sleep(10)
WaitSleep(seconds) ==
    /\ w_pc = "sleep"
    /\ w_elapsed' = w_elapsed + seconds
    /\ w_pc' = "check"
    /\ UNCHANGED <<w_node, w_built, w_checked, w_polled, w_link_run, w_timed_out, w_exc>>
    /\ UNCHANGED exceptWait

\* if not built: print("Timeout waiting for build. ..."); return
WaitTimeout ==
    /\ w_pc = "timeout"
    /\ w_timed_out' = TRUE
    /\ w_pc' = "finally"
    /\ UNCHANGED <<w_elapsed, w_node, w_built, w_checked, w_polled, w_link_run, w_exc>>
    /\ UNCHANGED exceptWait

\* links = session.run(link_query, prefix=prefix).single()["links_created"]
WaitLink(ok) ==
    /\ w_pc = "link"
    /\ w_link_run' = TRUE
    /\ IF ok
       THEN /\ w_pc' = "test"
            /\ UNCHANGED w_exc
       ELSE /\ w_pc' = "except"
            /\ w_exc' = "raised"
    /\ UNCHANGED <<w_elapsed, w_node, w_built, w_checked, w_polled, w_timed_out>>
    /\ UNCHANGED exceptWait

\* rules = session.run(test_query).single()["rules"]
WaitTest(ok) ==
    /\ w_pc = "test"
    /\ IF ok
       THEN /\ w_pc' = "finally"
            /\ UNCHANGED w_exc
       ELSE /\ w_pc' = "except"
            /\ w_exc' = "raised"
    /\ UNCHANGED <<w_elapsed, w_node, w_built, w_checked, w_polled, w_link_run, w_timed_out>>
    /\ UNCHANGED exceptWait

\* except Exception as e: print(f"Error: {e}")
WaitExcept ==
    /\ w_pc = "except"
    /\ w_exc' = "caught"
    /\ w_pc' = "finally"
    /\ UNCHANGED <<w_elapsed, w_node, w_built, w_checked, w_polled, w_link_run, w_timed_out>>
    /\ UNCHANGED exceptWait

\* finally: driver.close()
WaitFinally ==
    /\ w_pc = "finally"
    /\ w_pc' = "exit"
    /\ UNCHANGED <<w_elapsed, w_node, w_built, w_checked, w_polled, w_link_run, w_timed_out,
                   w_exc>>
    /\ UNCHANGED exceptWait

\* a build creates the Jurisdiction node while wait_and_link runs
JurisdictionCreated ==
    /\ w_pc \notin {"idle", "exit"}
    /\ ~w_node
    /\ w_node' = TRUE
    /\ UNCHANGED <<w_pc, w_elapsed, w_built, w_checked, w_polled, w_link_run, w_timed_out,
                   w_exc>>
    /\ UNCHANGED exceptWait

InitWait ==
    /\ WaitStarts
    /\ CmpIdle
    /\ DbIdle
    /\ BuildIdle
    /\ ScriptIdle
    /\ ExtractIdle
    /\ EnrichIdle
    /\ LinksIdle
    /\ ExportIdle
    /\ MigrateIdle
    /\ NormalizeIdle

NextWait ==
    \/ \E ok \in BOOLEAN, seconds \in QuerySeconds : WaitVerify(ok, seconds)
    \/ WaitCheck
    \/ \E ok \in BOOLEAN, seconds \in QuerySeconds : WaitPoll(ok, seconds)
    \/ \E seconds \in SleepDurations : WaitSleep(seconds)
    \/ WaitTimeout
    \/ \E ok \in BOOLEAN : WaitLink(ok)
    \/ \E ok \in BOOLEAN : WaitTest(ok)
    \/ WaitExcept
    \/ WaitFinally
    \/ JurisdictionCreated

SpecWait == InitWait /\ [][NextWait]_vars

(***************************************************************************)
(* Properties of wait_and_link's polling.                                  *)
(***************************************************************************)
\* C17: a poll starts only while fewer than 1200 seconds have elapsed, and at
\* least 10 seconds after the poll before it returned; the link query is run
\* only after a poll found the node; after a timeout the script has reported
\* it and has run no link query
C17_PollingAndTimeout ==
    /\ w_checked < TimeoutSeconds
    /\ (w_pc = "poll" /\ w_polled >= 0) => w_checked - w_polled >= SleepSeconds
    /\ w_link_run => w_built
    /\ w_built => JurisdictionFound
    /\ w_timed_out => ~w_link_run /\ ~w_built
    /\ (w_pc = "exit" /\ w_exc = "none" /\ ~w_built) => w_timed_out

\* a run that polled again after a sleep, right before the timeout, without
\* finding the node, and ended with the timeout
C17_Witness ==
    /\ w_pc = "exit"
    /\ w_timed_out
    /\ w_polled >= TimeoutSeconds - 5
    /\ w_checked = TimeoutSeconds - 5

\* a run that found the node after at least one sleep and ran the link query
C17_WitnessLinked ==
    /\ w_link_run
    /\ w_polled >= 0
    /\ w_checked > w_polled

(***************************************************************************)
(* extract_from_chunks.py and wait_and_link.py running at the same time on *)
(* one database: the only Jurisdiction node is the one extract_from_chunks *)
(* MERGEs.                                                                 *)
(***************************************************************************)
MaxBuildChunks == 2

InitBuildAndWait ==
    /\ e_n \in 1..MaxBuildChunks
    /\ e_pc = "start"
    /\ e_driver = "none"
    /\ e_exc = "none"
    /\ e_cause = "none"
    /\ e_i = 0
    /\ e_r = 0
    /\ e_state = [c \in 1..e_n |-> "pending"]
    /\ e_calls = [c \in 1..e_n |-> 0]
    /\ e_failed = {}
    /\ WaitStarts
    /\ w_node = FALSE
    /\ CmpIdle
    /\ DbIdle
    /\ BuildIdle
    /\ ScriptIdle
    /\ EnrichIdle
    /\ LinksIdle
    /\ ExportIdle
    /\ MigrateIdle
    /\ NormalizeIdle

NextBuildAndWait ==
    \/ NextExtract
    \/ \E ok \in BOOLEAN, seconds \in QuerySeconds : WaitVerify(ok, seconds)
    \/ WaitCheck
    \/ \E ok \in BOOLEAN, seconds \in QuerySeconds : WaitPoll(ok, seconds)
    \/ \E seconds \in SleepDurations : WaitSleep(seconds)
    \/ WaitTimeout
    \/ \E ok \in BOOLEAN : WaitLink(ok)
    \/ \E ok \in BOOLEAN : WaitTest(ok)
    \/ WaitExcept
    \/ WaitFinally

SpecBuildAndWait == InitBuildAndWait /\ [][NextBuildAndWait]_vars

(***************************************************************************)
(* Properties of the two scripts together.                                 *)
(***************************************************************************)
\* extract_from_chunks has ended and no chunk's result is still to be written
AllChunksThrough ==
    /\ e_pc \in {"finally", "exit"}
    /\ \A c \in 1..e_n : e_state[c] \in {"written", "skipped"}

\* C18: whenever wait_and_link has found the Jurisdiction node and goes on to
\* link, extract_from_chunks has already written the Section and Zone nodes
\* of every chunk
C18_LinkingStartsAfterBuild == w_built => AllChunksThrough

====
